---- MODULE Spec2Model ----
(***************************************************************************)
(* Model of yanun0323/gem: the schema compiler (parser.go) and the         *)
(* snapshot diff engine / migration generator (migrator.go).               *)
(*                                                                         *)
(* Texts (CREATE TABLE, CREATE INDEX, ALTER statements, file names) are    *)
(* TLA+ strings and are taken apart character by character as the Go code  *)
(* does.  md5 is modelled as a collision-free function of its input.       *)
(***************************************************************************)
EXTENDS Integers, Sequences, FiniteSets, TLC

(***************************************************************************)
(* Go's strings package                                                    *)
(***************************************************************************)
NL == "\n"
TAB == "\t"
\* A TLA+ string cannot hold the backtick character: "^" stands for it
\* everywhere in the model (and takes the backtick's place in the byte order).
BQ == "^"

Ch(s, i) == SubSeq(s, i, i)

Max2(a, b) == IF a >= b THEN a ELSE b

\* byte order of the characters that occur in the texts of the model
ByteOrder == "\t\n !\"#$%&'()*+,-./0123456789:;<=>?@ABCDEFGHIJKLMNOPQRSTUVWXYZ[\\]_^abcdefghijklmnopqrstuvwxyz{|}~"
UpperChars == "ABCDEFGHIJKLMNOPQRSTUVWXYZ"
LowerChars == "abcdefghijklmnopqrstuvwxyz"
DigitChars == "0123456789"

\* strings.Index, 1-based from position from; 0 when sub does not occur
MinOf(S) == CHOOSE x \in S : \A y \in S : x <= y
MaxOf(S) == CHOOSE x \in S : \A y \in S : x >= y

Occurrences(s, sub) ==
    {i \in 1..(Len(s) - Len(sub) + 1) : SubSeq(s, i, i + Len(sub) - 1) = sub}

IndexFrom(s, sub, from) ==
    LET at == {i \in Occurrences(s, sub) : i >= from}
    IN  IF at = {} THEN 0 ELSE MinOf(at)

Index(s, sub) == IndexFrom(s, sub, 1)

LastIndex(s, sub) ==
    IF Occurrences(s, sub) = {} THEN 0 ELSE MaxOf(Occurrences(s, sub))

Contains(s, sub) == Index(s, sub) # 0

HasPrefix(s, p) == Len(s) >= Len(p) /\ SubSeq(s, 1, Len(p)) = p

HasSuffix(s, p) == Len(s) >= Len(p) /\ SubSeq(s, Len(s) - Len(p) + 1, Len(s)) = p

TrimSuffix(s, p) == IF HasSuffix(s, p) THEN SubSeq(s, 1, Len(s) - Len(p)) ELSE s

IsSpace(c) == c \in {" ", NL, TAB}

\* the first position at or after i whose character is not in cut
SkipLeft(s, i, cut) ==
    LET stop == {k \in i..Len(s) : Ch(s, k) \notin cut}
    IN  IF stop = {} THEN Max2(i, Len(s) + 1) ELSE MinOf(stop)

\* the last position at or before j whose character is not in cut
SkipRight(s, j, cut) ==
    LET stop == {k \in 1..j : Ch(s, k) \notin cut}
    IN  IF stop = {} THEN 0 ELSE MaxOf(stop)

\* strings.Trim(s, cutset)
TrimSet(s, cut) ==
    LET i == SkipLeft(s, 1, cut)
        j == SkipRight(s, Len(s), cut)
    IN  IF i > j THEN "" ELSE SubSeq(s, i, j)

Trim(s, c) == TrimSet(s, {c})

TrimSpace(s) == TrimSet(s, {" ", NL, TAB})

\* strings.Split(s, sep) for a non-empty separator
RECURSIVE Split(_, _)
Split(s, sep) ==
    LET p == Index(s, sep)
    IN  IF p = 0 THEN <<s>>
        ELSE <<SubSeq(s, 1, p - 1)>> \o Split(SubSeq(s, p + Len(sep), Len(s)), sep)

\* strings.Fields(s)
RECURSIVE FieldsFrom(_, _)
FieldsFrom(s, i) ==
    LET b == SkipLeft(s, i, {" ", NL, TAB})
    IN  IF b > Len(s) THEN <<>>
        ELSE LET spaces == {k \in b..Len(s) : IsSpace(Ch(s, k))}
                 e == IF spaces = {} THEN Len(s) ELSE MinOf(spaces) - 1
             IN  <<SubSeq(s, b, e)>> \o FieldsFrom(s, e + 1)

Fields(s) == FieldsFrom(s, 1)

\* strings.Join
RECURSIVE Join(_, _)
Join(strs, sep) ==
    IF Len(strs) = 0 THEN ""
    ELSE IF Len(strs) = 1 THEN strs[1]
    ELSE strs[1] \o sep \o Join(Tail(strs), sep)

\* strings.ReplaceAll(s, old, new) for a non-empty old
RECURSIVE ReplaceAll(_, _, _)
ReplaceAll(s, old, new) ==
    LET p == Index(s, old)
    IN  IF p = 0 THEN s
        ELSE SubSeq(s, 1, p - 1) \o new
                 \o ReplaceAll(SubSeq(s, p + Len(old), Len(s)), old, new)

\* number of occurrences of the character c in s
CountChar(s, c) == Cardinality(Occurrences(s, c))

Code(c) == Index(ByteOrder, c)

\* Go's < on strings (byte-wise lexicographic)
StrLess(a, b) ==
    LET n == IF Len(a) <= Len(b) THEN Len(a) ELSE Len(b)
        diff == {i \in 1..n : Ch(a, i) # Ch(b, i)}
    IN  IF diff = {} THEN Len(a) < Len(b)
        ELSE Code(Ch(a, MinOf(diff))) < Code(Ch(b, MinOf(diff)))

\* unicode.ToLower on the letters of the model
ToLower(c) ==
    LET p == Index(UpperChars, c) IN IF p = 0 THEN c ELSE Ch(LowerChars, p)

ToUpper(c) ==
    LET p == Index(LowerChars, c) IN IF p = 0 THEN c ELSE Ch(UpperChars, p)

RECURSIVE ConcatAll(_, _)
ConcatAll(strs, i) == IF i > Len(strs) THEN "" ELSE strs[i] \o ConcatAll(strs, i + 1)

StrToUpper(s) == ConcatAll([i \in 1..Len(s) |-> ToUpper(Ch(s, i))], 1)

\* sort.Strings
RECURSIVE InsertSorted(_, _)
InsertSorted(sorted, x) ==
    IF Len(sorted) = 0 THEN <<x>>
    ELSE IF StrLess(x, sorted[1]) THEN <<x>> \o sorted
    ELSE <<sorted[1]>> \o InsertSorted(Tail(sorted), x)

RECURSIVE SortStrings(_)
SortStrings(strs) ==
    IF Len(strs) = 0 THEN <<>>
    ELSE InsertSorted(SortStrings(Tail(strs)), strs[1])

Range(f) == {f[x] : x \in DOMAIN f}

(***************************************************************************)
(* Models (annotated structs).  A field is its Go name, its kind, whether  *)
(* it is a pointer and its gorm tag, the tag being the list of its         *)
(* ";"-separated options, each option split once at ":" (<<key>> or        *)
(* <<key, value>>) as getTagValue does.                                    *)
(***************************************************************************)
Fld(name, kind, ptr, tag) ==
    [Name |-> name, Kind |-> kind, Ptr |-> ptr, Tag |-> tag,
     Exported |-> TRUE, Anonymous |-> FALSE, Sub |-> <<>>]

Struct(name, sub, tag) ==
    [Name |-> name, Kind |-> "struct", Ptr |-> FALSE, Tag |-> tag,
     Exported |-> TRUE, Anonymous |-> FALSE, Sub |-> sub]

\* a model: its Go type name, whether it implements TableName(), the name
\* that method returns, its fields, and whether its metadata is unreadable
Mdl(type, nameable, table, fields) ==
    [Type |-> type, Nameable |-> nameable, Table |-> table, Fields |-> fields,
     Malformed |-> FALSE]

RECURSIVE FirstOption(_, _, _)
FirstOption(tag, key, i) ==
    IF i > Len(tag) THEN 0
    ELSE IF tag[i][1] = key THEN i
    ELSE FirstOption(tag, key, i + 1)

getTagValue(field, key) ==
    LET i == FirstOption(field.Tag, key, 1)
    IN  IF i # 0 /\ Len(field.Tag[i]) = 2 THEN field.Tag[i][2] ELSE ""

hasTag(field, key) == \E i \in 1..Len(field.Tag) : field.Tag[i][1] = key

IsUpper(c) == Index(UpperChars, c) # 0
IsLower(c) == Index(LowerChars, c) # 0

RECURSIVE SnakeFrom(_, _)
SnakeFrom(s, i) ==
    IF i > Len(s) THEN ""
    ELSE LET r == Ch(s, i)
             under == /\ i > 1
                      /\ IsUpper(r)
                      /\ \/ IsLower(Ch(s, i - 1))
                         \/ /\ i + 1 <= Len(s)
                            /\ IsLower(Ch(s, i + 1))
                            /\ i > 2
         IN  (IF under THEN "_" ELSE "") \o ToLower(r) \o SnakeFrom(s, i + 1)

toSnakeCase(s) == SnakeFrom(s, 1)

toPlural(s) ==
    IF \/ HasSuffix(s, "s") \/ HasSuffix(s, "x") \/ HasSuffix(s, "z")
       \/ HasSuffix(s, "ch") \/ HasSuffix(s, "sh")
    THEN s \o "es"
    ELSE IF /\ HasSuffix(s, "y")
            /\ Len(s) > 1
            /\ Ch(s, Len(s) - 1) \notin {"a", "e", "i", "o", "u"}
    THEN SubSeq(s, 1, Len(s) - 1) \o "ies"
    ELSE s \o "s"

getTableName(model) ==
    IF model.Nameable THEN model.Table ELSE toPlural(toSnakeCase(model.Type))

getColumnName(field) ==
    LET columnName == getTagValue(field, "column")
    IN  IF columnName # "" THEN columnName ELSE toSnakeCase(field.Name)

\* quote(name, quoteChar); the zero rune is written ""
quote(s, quoteChar) ==
    IF quoteChar = "[" THEN "[" \o s \o "]"
    ELSE IF quoteChar = "" THEN BQ \o s \o BQ
    ELSE quoteChar \o s \o quoteChar

getSQLType(field) ==
    LET explicit == getTagValue(field, "type")
        precision == getTagValue(field, "precision")
        scale == getTagValue(field, "scale")
        size == getTagValue(field, "size")
        nullable == field.Ptr /\ ~hasTag(field, "primaryKey")
        base == CASE field.Kind = "bool" -> "BOOLEAN"
                  [] field.Kind \in {"int", "int32"} -> "INTEGER"
                  [] field.Kind = "int8" -> "TINYINT"
                  [] field.Kind = "int16" -> "SMALLINT"
                  [] field.Kind = "int64" -> "BIGINT"
                  [] field.Kind = "uint" -> "INTEGER UNSIGNED"
                  [] field.Kind = "uint8" -> "TINYINT UNSIGNED"
                  [] field.Kind = "uint16" -> "SMALLINT UNSIGNED"
                  [] field.Kind = "uint32" -> "INTEGER UNSIGNED"
                  [] field.Kind = "uint64" -> "BIGINT UNSIGNED"
                  [] field.Kind = "float32" -> "FLOAT"
                  [] field.Kind = "float64" -> "DOUBLE"
                  [] field.Kind = "string" ->
                        IF size # "" THEN "VARCHAR(" \o size \o ")" ELSE "VARCHAR(255)"
                  [] field.Kind = "time.Time" -> "DATETIME"
                  [] field.Kind = "[]byte" -> "BLOB"
                  [] OTHER -> "VARCHAR(255)"
    IN  IF explicit # ""
        THEN StrToUpper(explicit) \o (IF nullable THEN " NULL" ELSE "")
        ELSE IF precision # ""
        THEN IF scale # "" THEN "DECIMAL(" \o precision \o "," \o scale \o ")"
             ELSE "DECIMAL(" \o precision \o ")"
        ELSE base \o (IF nullable THEN " NULL" ELSE "")

\* the constraints written in the order of the options of the tag
RECURSIVE constraintsInTagOrder(_, _)
constraintsInTagOrder(field, k) ==
    IF k > Len(field.Tag)
    THEN IF ~field.Ptr /\ ~hasTag(field, "default") /\ ~hasTag(field, "not null")
         THEN <<"NOT NULL">> ELSE <<>>
    ELSE (CASE field.Tag[k][1] = "autoIncrement" -> <<"AUTO_INCREMENT">>
            [] field.Tag[k][1] = "check" -> <<"CHECK (" \o field.Tag[k][2] \o ")">>
            [] field.Tag[k][1] = "unique" -> <<"UNIQUE">>
            [] field.Tag[k][1] = "not null" -> <<"NOT NULL">>
            [] field.Tag[k][1] = "default" -> <<"DEFAULT " \o field.Tag[k][2]>>
            [] field.Tag[k][1] = "comment" ->
                  <<"COMMENT '" \o Trim(field.Tag[k][2], "'") \o "'">>
            [] OTHER -> <<>>)
         \o constraintsInTagOrder(field, k + 1)

fieldConstraintsInTagOrder(field) == constraintsInTagOrder(field, 1)

\* NOT NULL for every field that is not a pointer
fieldConstraintsIgnoringDefault(field) ==
    (IF hasTag(field, "autoIncrement") THEN <<"AUTO_INCREMENT">> ELSE <<>>)
    \o (IF getTagValue(field, "check") # ""
        THEN <<"CHECK (" \o getTagValue(field, "check") \o ")">> ELSE <<>>)
    \o (IF hasTag(field, "unique") THEN <<"UNIQUE">> ELSE <<>>)
    \o (IF hasTag(field, "not null") \/ ~field.Ptr THEN <<"NOT NULL">> ELSE <<>>)
    \o (IF getTagValue(field, "default") # ""
        THEN <<"DEFAULT " \o getTagValue(field, "default")>> ELSE <<>>)
    \o (IF getTagValue(field, "comment") # ""
        THEN <<"COMMENT '" \o Trim(getTagValue(field, "comment"), "'") \o "'">>
        ELSE <<>>)

fieldConstraints(field) ==
    (IF hasTag(field, "autoIncrement") THEN <<"AUTO_INCREMENT">> ELSE <<>>)
    \o (IF getTagValue(field, "check") # ""
        THEN <<"CHECK (" \o getTagValue(field, "check") \o ")">> ELSE <<>>)
    \o (IF hasTag(field, "unique") THEN <<"UNIQUE">> ELSE <<>>)
    \o (IF hasTag(field, "not null") \/ (~field.Ptr /\ ~hasTag(field, "default"))
        THEN <<"NOT NULL">> ELSE <<>>)
    \o (IF getTagValue(field, "default") # ""
        THEN <<"DEFAULT " \o getTagValue(field, "default")>> ELSE <<>>)
    \o (IF getTagValue(field, "comment") # ""
        THEN <<"COMMENT '" \o Trim(getTagValue(field, "comment"), "'") \o "'">>
        ELSE <<>>)

parseField(field, quoteChar) ==
    IF getTagValue(field, "-") \in {"all", "migration"} THEN ""
    ELSE LET constraints == fieldConstraints(field)
             head == quote(getColumnName(field), quoteChar) \o " " \o getSQLType(field)
         IN  IF Len(constraints) > 0
             THEN head \o " " \o Join(constraints, " ")
             ELSE head

\* a column of an embedded struct with the prefix put before its name
prefixColumn(column, prefix, quoteChar) ==
    quote(prefix \o TrimSet(SubSeq(column, 1, Index(column, " ") - 1),
                            {BQ, "\"", "[", "]"}), quoteChar)
        \o " " \o SubSeq(column, Index(column, " ") + 1, Len(column))

\* what one field of an embedded struct adds to the columns
embeddedColumn(field, column, prefix, quoteChar) ==
    IF ~field.Exported \/ column = "" THEN <<>>
    ELSE IF prefix # "" THEN <<prefixColumn(column, prefix, quoteChar)>>
    ELSE <<column>>

RECURSIVE parseEmbeddedFrom(_, _, _, _)
parseEmbeddedFrom(sub, i, prefix, quoteChar) ==
    IF i > Len(sub) THEN <<>>
    ELSE embeddedColumn(sub[i], parseField(sub[i], quoteChar), prefix, quoteChar)
             \o parseEmbeddedFrom(sub, i + 1, prefix, quoteChar)

parseEmbeddedField(field, prefix, quoteChar) ==
    parseEmbeddedFrom(field.Sub, 1, prefix, quoteChar)

\* fmt.Sscanf(s, "%d", &priority): the leading decimal number of s, 0 when
\* s does not start with one
RECURSIVE ScanDigits(_, _, _)
ScanDigits(s, i, acc) ==
    IF i <= Len(s) /\ Index(DigitChars, Ch(s, i)) # 0
    THEN ScanDigits(s, i + 1, 10 * acc + (Index(DigitChars, Ch(s, i)) - 1))
    ELSE acc

ScanInt(s) ==
    IF HasPrefix(s, "-") THEN 0 - ScanDigits(s, 2, 0)
    ELSE IF HasPrefix(s, "+") THEN ScanDigits(s, 2, 0)
    ELSE ScanDigits(s, 1, 0)

\* the index name and the priority written in the value of an index or
\* uniqueIndex tag
indexNameOf(raw) ==
    IF Contains(raw, ",priority:") THEN Split(raw, ",priority:")[1] ELSE raw

priorityOf(raw) ==
    IF Contains(raw, ",priority:") /\ Len(Split(raw, ",priority:")) > 1
    THEN ScanInt(Split(raw, ",priority:")[2])
    ELSE 0

indexInfo(name, columnName, isUnique, priority) ==
    [Name |-> name, Columns |-> <<columnName>>, IsUnique |-> isUnique,
     Priorities |-> (columnName :> priority)]

\* indexes is the map from index name to indexInfo
putIndex(indexes, indexName, columnName, priority, isUnique, synthetic) ==
    IF indexName = ""
    THEN (synthetic \o columnName
             :> indexInfo(synthetic \o columnName, columnName, isUnique, priority))
             @@ indexes
    ELSE IF indexName \in DOMAIN indexes
    THEN [indexes EXCEPT ![indexName] =
             [@ EXCEPT !.Columns = Append(@, columnName),
                       !.Priorities = (columnName :> priority) @@ @]]
    ELSE (indexName :> indexInfo(indexName, columnName, isUnique, priority)) @@ indexes

\* the index / uniqueIndex branch of parseModel for one field
indexTag(indexes, field, key, isUnique, synthetic) ==
    IF ~hasTag(field, key) THEN indexes
    ELSE putIndex(indexes, indexNameOf(getTagValue(field, key)), getColumnName(field),
                  priorityOf(getTagValue(field, key)), isUnique, synthetic)

EmptyMap == [x \in {} |-> x]

appendColumn(columns, column) == IF column # "" THEN Append(columns, column) ELSE columns

\* the columns and the indexes after the loop body of parseModel for one field
columnsWith(columns, field, quoteChar) ==
    IF ~field.Exported THEN columns
    ELSE IF field.Anonymous \/ hasTag(field, "embedded")
    THEN columns \o parseEmbeddedField(field, getTagValue(field, "embeddedPrefix"),
                                       quoteChar)
    ELSE appendColumn(columns, parseField(field, quoteChar))

indexesWith(indexes, field) ==
    IF ~field.Exported \/ field.Anonymous \/ hasTag(field, "embedded") THEN indexes
    ELSE indexTag(indexTag(indexes, field, "index", FALSE, "idx_"),
                  field, "uniqueIndex", TRUE, "udx_")

RECURSIVE parseModelFrom(_, _, _, _, _)
parseModelFrom(fields, i, quoteChar, columns, indexes) ==
    IF i > Len(fields) THEN [columns |-> columns, indexes |-> indexes]
    ELSE parseModelFrom(fields, i + 1, quoteChar,
                        columnsWith(columns, fields[i], quoteChar),
                        indexesWith(indexes, fields[i]))

parseModel(model, quoteChar) ==
    parseModelFrom(model.Fields, 1, quoteChar, <<>>, EmptyMap)

\* sort.SliceStable of the index columns by priority
RECURSIVE InsertByPriority(_, _, _)
InsertByPriority(sorted, col, prio) ==
    IF Len(sorted) = 0 THEN <<col>>
    ELSE IF prio[sorted[Len(sorted)]] <= prio[col] THEN Append(sorted, col)
    ELSE Append(InsertByPriority(SubSeq(sorted, 1, Len(sorted) - 1), col, prio),
                sorted[Len(sorted)])

\* the columns left in the order of their declaration
DeclarationOrder(cols, n, prio) == SubSeq(cols, 1, n)

RECURSIVE SortByPriority(_, _, _)
SortByPriority(cols, n, prio) ==
    IF n = 0 THEN <<>>
    ELSE InsertByPriority(SortByPriority(cols, n - 1, prio), cols[n], prio)

indexStatement(index, tableName, quoteChar) ==
    LET orderedColumns == SortByPriority(index.Columns, Len(index.Columns), index.Priorities)
        quoted == [k \in 1..Len(orderedColumns) |-> quote(orderedColumns[k], quoteChar)]
    IN  (IF index.IsUnique THEN "CREATE UNIQUE INDEX " ELSE "CREATE INDEX ")
            \o index.Name \o " ON " \o quote(tableName, quoteChar)
            \o " (" \o Join(quoted, ", ") \o ");"

RECURSIVE SetToSeq(_)
SetToSeq(S) ==
    IF S = {} THEN <<>>
    ELSE LET x == CHOOSE y \in S : TRUE IN <<x>> \o SetToSeq(S \ {x})

RECURSIVE FirstPrimaryKey(_, _)
FirstPrimaryKey(fields, i) ==
    IF i > Len(fields) THEN ""
    ELSE IF hasTag(fields[i], "primaryKey") THEN getColumnName(fields[i])
    ELSE FirstPrimaryKey(fields, i + 1)

\* the texts parseModelToSQLWithIndexes builds from what parseModel returned
createStatements(parsed, tableName, primaryKeyName, quoteChar) ==
    [schema |-> "CREATE TABLE IF NOT EXISTS " \o quote(tableName, quoteChar)
                    \o " (\n  "
                    \o Join(IF primaryKeyName # ""
                            THEN Append(parsed.columns,
                                     "PRIMARY KEY (" \o quote(primaryKeyName, quoteChar)
                                         \o ")")
                            ELSE parsed.columns, ",\n  ")
                    \o "\n);",
     indexes |-> SortStrings(SetToSeq(
                     {indexStatement(parsed.indexes[n], tableName, quoteChar) :
                          n \in DOMAIN parsed.indexes}))]

\* the CREATE TABLE text and the sorted CREATE INDEX texts of a model
parseModelToSQLWithIndexes(model, quoteChar) ==
    createStatements(parseModel(model, quoteChar), getTableName(model),
                     FirstPrimaryKey(model.Fields, 1), quoteChar)

(***************************************************************************)
(* Snapshot hash and the textual re-parse of CREATE TABLE / CREATE INDEX   *)
(***************************************************************************)
RECURSIVE CollapseSpaces(_)
CollapseSpaces(ss) ==
    LET next == ReplaceAll(ss, "  ", " ")
    IN  IF Len(next) = Len(ss) THEN next ELSE CollapseSpaces(next)

\* one pass of the replacement of two spaces by one
normalizeOnce(s) ==
    ReplaceAll(ReplaceAll(ReplaceAll(s, TAB, " "), NL, " "), "  ", " ")

normalizeWhitespace(s) ==
    CollapseSpaces(ReplaceAll(ReplaceAll(s, TAB, " "), NL, " "))

RECURSIVE ConcatNormalized(_, _)
ConcatNormalized(indexes, i) ==
    IF i > Len(indexes) THEN ""
    ELSE normalizeWhitespace(indexes[i]) \o ConcatNormalized(indexes, i + 1)

\* md5 as a collision-free function of the bytes written to it
Md5Hex(data) == "md5:" \o data

generateHash(schema, indexes) ==
    Md5Hex(normalizeWhitespace(schema) \o ConcatNormalized(indexes, 1))

IsWordChar(c) ==
    Index(LowerChars, c) # 0 \/ Index(UpperChars, c) # 0
        \/ Index(DigitChars, c) # 0 \/ c = "_"

CreateTablePrefix == "CREATE TABLE IF NOT EXISTS " \o BQ

\* the first position at or after i that holds no word character
WordEnd(s, i) ==
    LET stop == {k \in i..Len(s) : ~IsWordChar(Ch(s, k))}
    IN  IF stop = {} THEN Max2(i, Len(s) + 1) ELSE MinOf(stop)

\* the leftmost match of
\*   CREATE TABLE IF NOT EXISTS `(\w+)` \(([\s\S]+)\);
\* in sql at or after position from: [ok, name, body]
RECURSIVE MatchCreateTable(_, _)
MatchCreateTable(sql, from) ==
    LET p == IndexFrom(sql, CreateTablePrefix, from)
        nameStart == p + Len(CreateTablePrefix)
        nameEnd == WordEnd(sql, nameStart)
        bodyStart == nameEnd + 3
        close == LastIndex(sql, ");")
    IN  IF p = 0 THEN [ok |-> FALSE, name |-> "", body |-> ""]
        ELSE IF /\ nameEnd > nameStart
                /\ SubSeq(sql, nameEnd, nameEnd + 2) = BQ \o " ("
                /\ close > bodyStart
        THEN [ok |-> TRUE, name |-> SubSeq(sql, nameStart, nameEnd - 1),
              body |-> SubSeq(sql, bodyStart, close - 1)]
        ELSE MatchCreateTable(sql, p + 1)

\* the loop of parseCreateTable over the lines of the column block
RECURSIVE parseColumnLines(_, _, _, _, _, _)
parseColumnLines(lines, i, columnsStr, columns, currentColumn, inParentheses) ==
    IF i > Len(lines) THEN columns
    ELSE LET line == TrimSpace(lines[i])
             depth == inParentheses + CountChar(line, "(") - CountChar(line, ")")
             current == IF currentColumn # "" THEN currentColumn \o " " \o line ELSE line
             complete == /\ depth = 0
                         /\ \/ HasSuffix(line, ",")
                            \/ ~Contains(SubSeq(columnsStr, Len(current) + 1,
                                                Len(columnsStr)), ",")
             parts == Fields(TrimSuffix(current, ","))
         IN  IF line = ""
             THEN parseColumnLines(lines, i + 1, columnsStr, columns,
                                   currentColumn, inParentheses)
             ELSE IF ~complete
             THEN parseColumnLines(lines, i + 1, columnsStr, columns, current, depth)
             ELSE IF Len(parts) < 2
             THEN parseColumnLines(lines, i + 1, columnsStr, columns,
                                   TrimSuffix(current, ","), depth)
             ELSE IF StrToUpper(parts[1]) = "PRIMARY" /\ StrToUpper(parts[2]) = "KEY"
             THEN parseColumnLines(lines, i + 1, columnsStr, columns, "", depth)
             ELSE parseColumnLines(lines, i + 1, columnsStr,
                      Append(columns, [Name |-> Trim(parts[1], BQ),
                                       Type |-> parts[2],
                                       Constraints |-> SubSeq(parts, 3, Len(parts))]),
                      "", depth)

\* parseCreateTable: [err, Name, Columns]
parseCreateTable(text) ==
    LET sql == TrimSpace(text)
        m == MatchCreateTable(sql, 1)
    IN  IF ~m.ok THEN [err |-> TRUE, Name |-> "", Columns |-> <<>>]
        ELSE [err |-> FALSE, Name |-> m.name,
              Columns |-> parseColumnLines(Split(m.body, NL), 1, m.body, <<>>, "", 0)]

RECURSIVE removeDuplicatesFrom(_, _, _)
removeDuplicatesFrom(elements, i, seen) ==
    IF i > Len(elements) THEN <<>>
    ELSE IF elements[i] \in seen THEN removeDuplicatesFrom(elements, i + 1, seen)
    ELSE <<elements[i]>> \o removeDuplicatesFrom(elements, i + 1, seen \cup {elements[i]})

removeDuplicates(elements) == removeDuplicatesFrom(elements, 1, {})

\* parseIndexes: the map from index name to [Name, Columns, IsUnique, TableName]
RECURSIVE parseIndexesFrom(_, _, _)
parseIndexesFrom(indexes, i, result) ==
    IF i > Len(indexes)
    THEN [n \in DOMAIN result |->
             [result[n] EXCEPT !.Columns = removeDuplicates(@)]]
    ELSE LET index == indexes[i]
             parts == Fields(index)
             isUnique == StrToUpper(parts[2]) = "UNIQUE"
             startIdx == IF isUnique THEN 4 ELSE 3
             name == parts[startIdx]
             tableName == parts[startIdx + 2]
             columnsStr == SubSeq(index, Index(index, "(") + 1, LastIndex(index, ")") - 1)
             raw == Split(columnsStr, ",")
             columns == [k \in 1..Len(raw) |->
                            TrimSuffix(TrimSuffix(TrimSpace(raw[k]), ";"), ");")]
         IN  IF Len(parts) < 6 THEN parseIndexesFrom(indexes, i + 1, result)
             ELSE IF name \in DOMAIN result
             THEN parseIndexesFrom(indexes, i + 1,
                      [result EXCEPT ![name].Columns = @ \o columns])
             ELSE parseIndexesFrom(indexes, i + 1,
                      (name :> [Name |-> name, Columns |-> columns,
                                IsUnique |-> isUnique, TableName |-> tableName])
                          @@ result)

parseIndexes(indexes) == parseIndexesFrom(indexes, 1, EmptyMap)

\* indexDef.ToSQL
ToSQL(index) ==
    (IF index.IsUnique THEN "CREATE UNIQUE INDEX " ELSE "CREATE INDEX ")
        \o index.Name \o " ON " \o index.TableName
        \o " (" \o Join(removeDuplicates(index.Columns), ", ") \o ");"

(***************************************************************************)
(* The models of the runs: versions of three tables.                       *)
(***************************************************************************)
fID == Fld("ID", "uint", FALSE, <<<<"primaryKey">>, <<"autoIncrement">>>>)
fName == Fld("Name", "string", FALSE, <<<<"size", "100">>, <<"not null">>>>)
fAge == Fld("Age", "int", TRUE, <<<<"default", "18">>>>)
fEmail == Fld("Email", "string", FALSE, <<<<"column", "email_address">>, <<"size", "150">>>>)
fCode == Fld("Code", "string", FALSE, <<<<"size", "20">>>>)
fLabel == Fld("Label", "string", FALSE, <<<<"size", "100">>, <<"not null">>>>)
fWeight == Fld("Weight", "int", FALSE, <<>>)
\* ID and Name when the primary key is the name
fIDPlain == Fld("ID", "uint", FALSE, <<<<"autoIncrement">>>>)
fNameKey == Fld("Name", "string", FALSE, <<<<"primaryKey">>, <<"size", "100">>, <<"not null">>>>)

Models ==
    [ U0     |-> Mdl("User", TRUE, "users", <<fID, fName>>),
      ULast  |-> Mdl("User", TRUE, "users", <<fID, fName, fAge>>),
      UMid   |-> Mdl("User", TRUE, "users", <<fID, fAge, fName>>),
      UFirst |-> Mdl("User", TRUE, "users", <<fAge, fID, fName>>),
      UKey   |-> Mdl("User", TRUE, "users", <<fIDPlain, fNameKey>>),
      \* another package's type User, without a TableName method
      Dup    |-> Mdl("User", FALSE, "", <<fID, fEmail>>),
      T0     |-> Mdl("Tag", FALSE, "", <<fCode, fLabel>>),
      TLast  |-> Mdl("Tag", FALSE, "", <<fCode, fLabel, fWeight>>),
      TMid   |-> Mdl("Tag", FALSE, "", <<fCode, fWeight, fLabel>>),
      TFirst |-> Mdl("Tag", FALSE, "", <<fWeight, fCode, fLabel>>),
      Bad    |-> [Mdl("Note", FALSE, "", <<fCode>>) EXCEPT !.Malformed = TRUE] ]

ModelIds == DOMAIN Models

(***************************************************************************)
(* The compiler, the hash and the re-parse are pure: their values on the   *)
(* models above are computed once and looked up by the steps of Generate.  *)
(***************************************************************************)
\* the backtick, the zero rune (the default) and the double quote
QuoteChars == {BQ, "", "\""}

CompileMemo ==
    [q \in QuoteChars |->
        [id \in ModelIds |-> parseModelToSQLWithIndexes(Models[id], q)]]

HashMemo(compiled) ==
    [q \in QuoteChars |->
        [id \in ModelIds |->
            generateHash(compiled[q][id].schema, compiled[q][id].indexes)]]

TableMemo == [id \in ModelIds |-> getTableName(Models[id])]

SchemaTexts(compiled) == {compiled[q][id].schema : q \in QuoteChars, id \in ModelIds}

ParseMemo(texts) == [text \in texts |-> parseCreateTable(text)]

LibraryOf(compiled) ==
    [compile |-> compiled, hash |-> HashMemo(compiled), table |-> TableMemo,
     parse |-> ParseMemo(SchemaTexts(compiled))]

Library == LibraryOf(CompileMemo)

\* the tables above, held by every state so that a step looks a value up
\* instead of computing it again
VARIABLE lib

Compiled(id, quoteChar) == lib.compile[quoteChar][id]
HashOf(id, quoteChar) == lib.hash[quoteChar][id]
TableOf(id) == lib.table[id]
Parsed(text) == lib.parse[text]

(***************************************************************************)
(* Diff engine.  Go iterates a map in an unspecified order: every compare  *)
(* operator takes the iteration orders of its maps as arguments, and the   *)
(* callers draw them from MapOrders.                                       *)
(***************************************************************************)
Perms(S) ==
    {p \in [1..Cardinality(S) -> S] : \A a, b \in 1..Cardinality(S) : p[a] = p[b] => a = b}

\* the iteration orders of a map with the given keys, up to the position of
\* the keys for which the loop body does nothing (these go last, in one
\* fixed order)
MapOrders(keys, acting) ==
    {p \o SetToSeq(keys \ acting) : p \in Perms(keys \cap acting)}

ColumnNames(cols) == {cols[k].Name : k \in 1..Len(cols)}

\* the map built by  for _, col := range cols { m[col.Name] = col }
ColumnMap(cols) ==
    [n \in ColumnNames(cols) |->
        cols[CHOOSE k \in 1..Len(cols) :
                 cols[k].Name = n /\ \A j \in (k + 1)..Len(cols) : cols[j].Name # n]]

\* a comparison blind to the order of the constraints
compareColumnDefUnordered(old, new) ==
    old.Type = new.Type /\ Range(old.Constraints) = Range(new.Constraints)

compareColumnDef(old, new) ==
    /\ old.Type = new.Type
    /\ Len(old.Constraints) = Len(new.Constraints)
    /\ \A k \in 1..Len(old.Constraints) : old.Constraints[k] = new.Constraints[k]

ColumnSQL(verb, tableName, col) ==
    "ALTER TABLE " \o BQ \o tableName \o BQ \o " " \o verb \o " COLUMN "
        \o BQ \o col.Name \o BQ \o " " \o col.Type \o " "
        \o Join(col.Constraints, " ") \o ";"

DropColumnSQL(tableName, col) ==
    "ALTER TABLE " \o BQ \o tableName \o BQ \o " DROP COLUMN " \o BQ \o col.Name \o BQ \o ";"

RECURSIVE addedAndModified(_, _, _, _, _)
addedAndModified(tableName, oldColMap, newColMap, order, i) ==
    IF i > Len(order) THEN <<>>
    ELSE LET name == order[i]
             newCol == newColMap[name]
             rest == addedAndModified(tableName, oldColMap, newColMap, order, i + 1)
         IN  IF name \notin DOMAIN oldColMap
             THEN <<[Up |-> ColumnSQL("ADD", tableName, newCol),
                     Down |-> DropColumnSQL(tableName, newCol)]>> \o rest
             ELSE IF ~compareColumnDef(oldColMap[name], newCol)
             THEN <<[Up |-> ColumnSQL("MODIFY", tableName, newCol),
                     Down |-> ColumnSQL("MODIFY", tableName, oldColMap[name])]>> \o rest
             ELSE rest

RECURSIVE deleted(_, _, _, _, _)
deleted(tableName, oldColMap, newColMap, order, i) ==
    IF i > Len(order) THEN <<>>
    ELSE LET name == order[i]
             rest == deleted(tableName, oldColMap, newColMap, order, i + 1)
         IN  IF name \notin DOMAIN newColMap
             THEN <<[Up |-> DropColumnSQL(tableName, oldColMap[name]),
                     Down |-> ColumnSQL("ADD", tableName, oldColMap[name])]>> \o rest
             ELSE rest

compareColumns(keepDroppedColumn, tableName, oldCols, newCols, newOrder, oldOrder) ==
    LET oldColMap == ColumnMap(oldCols)
        newColMap == ColumnMap(newCols)
    IN  addedAndModified(tableName, oldColMap, newColMap, newOrder, 1)
            \o (IF ~keepDroppedColumn
                THEN deleted(tableName, oldColMap, newColMap, oldOrder, 1)
                ELSE <<>>)

\* the keys of the new column map that yield an operation
ActingColumns(oldCols, newCols) ==
    {n \in ColumnNames(newCols) :
        \/ n \notin ColumnNames(oldCols)
        \/ ~compareColumnDef(ColumnMap(oldCols)[n], ColumnMap(newCols)[n])}

\* a comparison that also looks at the order of the columns
compareIndexDefInOrder(old, new) ==
    old.IsUnique = new.IsUnique /\ old.Columns = new.Columns

compareIndexDef(old, new) ==
    /\ old.IsUnique = new.IsUnique
    /\ Len(old.Columns) = Len(new.Columns)
    /\ SortStrings(old.Columns) = SortStrings(new.Columns)

DropIndexSQL(name, tableName) == "DROP INDEX " \o name \o " ON " \o tableName \o ";"

\* an index diff that never recreates a changed index
RECURSIVE addedIndexesOnly(_, _, _, _)
addedIndexesOnly(oldIndexMap, newIndexMap, order, i) ==
    IF i > Len(order) THEN <<>>
    ELSE IF order[i] \notin DOMAIN oldIndexMap
    THEN <<[Up |-> ToSQL(newIndexMap[order[i]]),
            Down |-> DropIndexSQL(order[i], newIndexMap[order[i]].TableName)]>>
             \o addedIndexesOnly(oldIndexMap, newIndexMap, order, i + 1)
    ELSE addedIndexesOnly(oldIndexMap, newIndexMap, order, i + 1)

RECURSIVE addedAndModifiedIndexes(_, _, _, _)
addedAndModifiedIndexes(oldIndexMap, newIndexMap, order, i) ==
    IF i > Len(order) THEN <<>>
    ELSE LET name == order[i]
             newIdx == newIndexMap[name]
             rest == addedAndModifiedIndexes(oldIndexMap, newIndexMap, order, i + 1)
         IN  IF name \notin DOMAIN oldIndexMap
             THEN <<[Up |-> ToSQL(newIdx),
                     Down |-> DropIndexSQL(name, newIdx.TableName)]>> \o rest
             ELSE IF ~compareIndexDef(oldIndexMap[name], newIdx)
             THEN <<[Up |-> DropIndexSQL(name, newIdx.TableName) \o NL \o ToSQL(newIdx),
                     Down |-> DropIndexSQL(name, oldIndexMap[name].TableName)
                                  \o NL \o ToSQL(oldIndexMap[name])]>> \o rest
             ELSE rest

RECURSIVE deletedIndexes(_, _, _, _)
deletedIndexes(oldIndexMap, newIndexMap, order, i) ==
    IF i > Len(order) THEN <<>>
    ELSE LET name == order[i]
             rest == deletedIndexes(oldIndexMap, newIndexMap, order, i + 1)
         IN  IF name \notin DOMAIN newIndexMap
             THEN <<[Up |-> DropIndexSQL(name, oldIndexMap[name].TableName),
                     Down |-> ToSQL(oldIndexMap[name])]>> \o rest
             ELSE rest

\* the two loops of compareIndexes over the parsed maps
compareIndexMaps(oldIndexMap, newIndexMap, newOrder, oldOrder) ==
    addedAndModifiedIndexes(oldIndexMap, newIndexMap, newOrder, 1)
        \o deletedIndexes(oldIndexMap, newIndexMap, oldOrder, 1)

compareIndexes(oldIndexes, newIndexes, newOrder, oldOrder) ==
    compareIndexMaps(parseIndexes(oldIndexes), parseIndexes(newIndexes),
                     newOrder, oldOrder)

\* the keys of the new index map that yield an operation
ActingIndexes(oldIndexMap, newIndexMap) ==
    {n \in DOMAIN newIndexMap :
        \/ n \notin DOMAIN oldIndexMap
        \/ ~compareIndexDef(oldIndexMap[n], newIndexMap[n])}

Ups(ops) == SelectSeq([k \in 1..Len(ops) |-> ops[k].Up], LAMBDA u : u # "")
Downs(ops) == SelectSeq([k \in 1..Len(ops) |-> ops[k].Down], LAMBDA d : d # "")

(***************************************************************************)
(* migrator: snapshots, alter statements, migration file contents          *)
(***************************************************************************)
\* findSnapshot: the position in snaps of the first snapshot named name, 0 for nil
RECURSIVE findSnapshotFrom(_, _, _)
findSnapshotFrom(snaps, name, i) ==
    IF i > Len(snaps) THEN 0
    ELSE IF snaps[i].Name = name THEN i
    ELSE findSnapshotFrom(snaps, name, i + 1)

findSnapshot(snaps, name) == findSnapshotFrom(snaps, name, 1)

ParseErrorText == "invalid CREATE TABLE syntax"

NoOrder == [newCols |-> <<>>, oldCols |-> <<>>, newIdx |-> <<>>, oldIdx |-> <<>>]

\* the iteration orders of the four maps of compareColumns and compareIndexes
OrdersOf(oldCols, newCols, oldIndexMap, newIndexMap) ==
    {[newCols |-> nc, oldCols |-> oc, newIdx |-> ni, oldIdx |-> oi] :
        nc \in MapOrders(ColumnNames(newCols), ActingColumns(oldCols, newCols)),
        oc \in MapOrders(ColumnNames(oldCols), ColumnNames(oldCols) \ ColumnNames(newCols)),
        ni \in MapOrders(DOMAIN newIndexMap, ActingIndexes(oldIndexMap, newIndexMap)),
        oi \in MapOrders(DOMAIN oldIndexMap, DOMAIN oldIndexMap \ DOMAIN newIndexMap)}

\* the map iteration orders one call of generateAlterStatements can meet
AlterOrders(snaps, tableName, newSchema, newIndexes) ==
    LET newDef == Parsed(newSchema)
        at == findSnapshot(snaps, tableName)
        oldDef == Parsed(snaps[at].Schema)
    IN  IF newDef.err \/ at = 0 \/ oldDef.err THEN {NoOrder}
        ELSE OrdersOf(oldDef.Columns, newDef.Columns,
                      parseIndexes(snaps[at].Indexes), parseIndexes(newIndexes))

\* upStatements and downStatements, from the operations of the two compares
statementsOf(columnOps, indexOps) ==
    [up |-> Ups(columnOps) \o Ups(indexOps),
     down |-> Downs(columnOps) \o Downs(indexOps)]

\* generateAlterStatements: [up, down]
generateAlterStatements(config, snaps, tableName, newSchema, newIndexes, ord) ==
    LET newDef == Parsed(newSchema)
        at == findSnapshot(snaps, tableName)
        oldDef == Parsed(snaps[at].Schema)
    IN  IF newDef.err
        THEN [up |-> <<"-- Error parsing new schema: " \o ParseErrorText>>, down |-> <<>>]
        ELSE IF at = 0
        THEN [up |-> <<"-- Unable to find snapshot for table " \o tableName>>, down |-> <<>>]
        ELSE IF oldDef.err
        THEN [up |-> <<"-- Error parsing old schema: " \o ParseErrorText>>, down |-> <<>>]
        ELSE statementsOf(
                 compareColumns(config.KeepDroppedColumn, tableName,
                                oldDef.Columns, newDef.Columns, ord.newCols, ord.oldCols),
                 compareIndexes(snaps[at].Indexes, newIndexes, ord.newIdx, ord.oldIdx))

\* what the calls of generateAlterStatements with these arguments can return
AlterResults(config, snaps, tableName, newSchema, newIndexes) ==
    {generateAlterStatements(config, snaps, tableName, newSchema, newIndexes, ord) :
        ord \in AlterOrders(snaps, tableName, newSchema, newIndexes)}

joinStrings(str, sep) == Join(str, sep)

textDoNotEdit == "-- DO NOT EDIT THIS FILE!!!"
textGeneratedBy == "-- Generate by https://github.com/yanun0323/gem"

wrapDoNotEdit(s) ==
    textDoNotEdit \o "\n--\n" \o textGeneratedBy \o "\n\n" \o s \o "\n\n" \o textDoNotEdit

\* generateMigrationFileInfo; alter is the [up, down] its call of
\* generateAlterStatements returned (used when isNew is false)
generateMigrationFileInfo(config, stamp, tableName, schema, indexes, isNew, alter) ==
    LET kind == IF isNew THEN "_create_" ELSE "_alter_"
        stem == ToString(stamp) \o kind \o tableName
        dropTable == "DROP TABLE IF EXISTS " \o quote(tableName, config.QuoteChar) \o ";"
        ups == joinStrings(alter.up, NL)
        downs == joinStrings(alter.down, NL)
    IN  CASE config.Tool = "RawSQL" ->
               [upFilename |-> stem \o ".sql", downFilename |-> "", downContent |-> "",
                upContent |-> IF ~isNew THEN ups
                              ELSE IF Len(indexes) = 0 THEN schema
                              ELSE schema \o NL \o joinStrings(indexes, NL)]
          [] config.Tool = "Goose" ->
               [upFilename |-> stem \o ".sql", downFilename |-> "", downContent |-> "",
                upContent |-> IF ~isNew
                              THEN "-- +goose Up\n" \o ups \o "\n\n-- +goose Down\n"
                                       \o downs \o NL
                              ELSE IF Len(indexes) = 0
                              THEN "-- +goose Up\n" \o schema \o "\n\n-- +goose Down\n"
                                       \o dropTable \o NL
                              ELSE "-- +goose Up\n" \o schema \o "\n\n"
                                       \o joinStrings(indexes, NL)
                                       \o "\n\n-- +goose Down\n" \o dropTable \o NL]
          [] config.Tool = "GolangMigrate" ->
               [upFilename |-> stem \o ".up.sql", downFilename |-> stem \o ".down.sql",
                downContent |-> IF isNew THEN dropTable ELSE downs,
                upContent |-> IF ~isNew THEN ups
                              ELSE IF Len(indexes) = 0 THEN schema
                              ELSE schema \o "\n\n" \o joinStrings(indexes, NL)]
          [] OTHER ->
               [upFilename |-> "", downFilename |-> "", upContent |-> "",
                downContent |-> ""]

(***************************************************************************)
(* Bounds and inputs of the runs                                           *)
(***************************************************************************)
MaxModels == 2      \* most models one migrator holds
MaxClock == 1       \* latest second at which a run starts
TimeBase == 1000    \* the value of now.Format("20060102150405") at second 0

\* the model sets of the applications considered: one behaviour draws its
\* models from one of them
Scopes ==
    { {"U0", "ULast", "UMid"},
      {"U0", "Dup", "T0"},
      {"T0", "TLast", "Bad"} }

Configs ==
    { [Tool |-> "RawSQL", QuoteChar |-> BQ, KeepDroppedColumn |-> FALSE,
       RawSQLAggregation |-> FALSE],
      [Tool |-> "Goose", QuoteChar |-> "", KeepDroppedColumn |-> TRUE,
       RawSQLAggregation |-> FALSE],
      [Tool |-> "GolangMigrate", QuoteChar |-> "\"", KeepDroppedColumn |-> FALSE,
       RawSQLAggregation |-> FALSE],
      [Tool |-> "RawSQL", QuoteChar |-> BQ, KeepDroppedColumn |-> TRUE,
       RawSQLAggregation |-> TRUE] }

(***************************************************************************)
(* State                                                                   *)
(***************************************************************************)
VARIABLES
    conf,       \* m.conf
    declared,   \* the models of the application (an element of Scopes)
    models,     \* m.models: sequence of model ids
    snapshots,  \* m.snapshots: sequence of [Name, Hash, Schema, Indexes]
    disk,       \* .gem/snapshots.json: [exists, doc]
    written,    \* the files written by the current call of Generate, in order
    pc,         \* position of the caller: "idle", "loop", "write", "done", "failed"
    timestamp,  \* Generate's local timestamp
    idx,        \* loop position in m.models (pc = "loop") or in infos (pc = "write")
    infos,      \* Generate's local infos
    aggregate,  \* Generate's local aggregateContent
    now,        \* Generate's local now, in seconds
    err,        \* what the last call of Generate returned ("" for nil)
    before,     \* history: disk when the current call of Generate began
    log,        \* history: what the loop did for each model of the current call
    again,      \* history: the current call began right after a call that returned nil
    call        \* the diff engine called on its own: its arguments and its result

runVars == <<conf, declared, models, snapshots, disk, written, pc, now, timestamp,
             idx, infos, aggregate, err, before, log, again>>

vars == <<runVars, call, lib>>

NoSnapshot == [Name |-> "", Hash |-> "", Schema |-> "", Indexes |-> <<>>]
NoAlter == [up |-> <<>>, down |-> <<>>]

\* no call made yet
NoCall ==
    [old |-> "", new |-> "", tableName |-> "", keep |-> FALSE, quoteChar |-> "",
     up |-> <<>>, down |-> <<>>, flipped |-> NoAlter]

Called == call # NoCall

\* a migrator just built by New(config), before any file exists
Fresh(config, scope) ==
    /\ conf = config
    /\ declared = scope
    /\ models = <<>>
    /\ snapshots = <<>>
    /\ disk = [exists |-> FALSE, doc |-> <<>>]
    /\ written = <<>>
    /\ pc = "idle"
    /\ timestamp = 0
    /\ idx = 0
    /\ infos = <<>>
    /\ aggregate = ""
    /\ now = 0
    /\ err = ""
    /\ before = [exists |-> FALSE, doc |-> <<>>]
    /\ log = <<>>
    /\ again = FALSE
    /\ call = NoCall
    /\ lib = Library

Init == \E config \in Configs, scope \in Scopes : Fresh(config, scope)

Returned == pc \in {"idle", "done", "failed"}

\* the locals and the history of a call of Generate that has returned are
\* dropped when the caller goes on
Forget ==
    /\ pc' = "idle"
    /\ written' = <<>>
    /\ now' = 0
    /\ timestamp' = 0
    /\ idx' = 0
    /\ infos' = <<>>
    /\ aggregate' = ""
    /\ err' = ""
    /\ before' = disk
    /\ log' = <<>>
    /\ again' = FALSE

\* New(config): the application starts again, with the configuration it has in
\* its code; the files stay
New ==
    /\ Returned
    /\ models' = <<>>
    /\ snapshots' = <<>>
    /\ Forget
    /\ UNCHANGED <<conf, declared, disk, call, lib>>

\* every arrangement of all: what AddModels would leave without its sort
Unsorted(all) ==
    {[k \in 1..Len(all) |-> all[p[k]]] : p \in Perms(1..Len(all))}

\* the results sort.Slice (not stable) can leave: every arrangement of all
\* with non-decreasing table names
SortedByTable(all) ==
    {[k \in 1..Len(all) |-> all[p[k]]] : p \in
        {q \in Perms(1..Len(all)) :
            \A a, b \in 1..Len(all) :
                a < b => ~StrLess(TableOf(all[q[b]]), TableOf(all[q[a]]))}}

AddModels ==
    /\ Returned
    /\ \E ms \in {<<a>> : a \in declared} \cup {<<a, b>> : a, b \in declared} :
          /\ Len(models) + Len(ms) <= MaxModels
          /\ models' \in SortedByTable(models \o ms)
    /\ Forget
    /\ UNCHANGED <<conf, declared, snapshots, disk, call, lib>>

(***************************************************************************)
(* Generate, step by step: begin, one step per model of the loop, one step *)
(* per info of the write loop, and the end (aggregation file and           *)
(* saveSnapshots).                                                         *)
(***************************************************************************)
\* the sign file (its name and content are constants declared outside the
\* files at hand)
SignFile == [name |-> "_doNotEditFolderFilename", content |-> "_doNotEditFolderContent"]

Fail(reason) ==
    /\ pc' = "failed"
    /\ err' = reason

\* len(m.models) == 0: return nil
GenerateNothing ==
    /\ Returned
    /\ Len(models) = 0
    /\ pc' = "done"
    /\ err' = ""
    /\ before' = disk
    /\ written' = <<>>
    /\ infos' = <<>>
    /\ log' = <<>>
    /\ aggregate' = ""
    /\ idx' = 0
    /\ now' = 0
    /\ timestamp' = 0
    /\ again' = FALSE
    /\ UNCHANGED <<conf, declared, models, snapshots, disk, call, lib>>

\* os.MkdirAll fails
GenerateMkdirFails ==
    /\ Returned
    /\ Len(models) > 0
    /\ Fail("mkdir")
    /\ before' = disk
    /\ written' = <<>>
    /\ infos' = <<>>
    /\ log' = <<>>
    /\ aggregate' = ""
    /\ idx' = 0
    /\ now' = 0
    /\ timestamp' = 0
    /\ again' = FALSE
    /\ UNCHANGED <<conf, declared, models, snapshots, disk, call, lib>>

\* a load that never reads the file
loadNothing(snaps, file) == snaps

\* loadSnapshots: a missing file leaves m.snapshots as it is
loadSnapshots(snaps, file) == IF file.exists THEN file.doc ELSE snaps

\* directories, loadSnapshots, timestamp, sign file; signOk is whether
\* writing the sign file succeeds
GenerateBegin ==
    /\ Returned
    /\ Len(models) > 0
    /\ \E second \in 0..MaxClock, signOk \in BOOLEAN :
          /\ now' = second
          /\ snapshots' = loadSnapshots(snapshots, disk)
          /\ timestamp' = (TimeBase + second) - Len(models)
          /\ IF signOk
             THEN /\ written' = <<SignFile>>
                  /\ pc' = "loop"
                  /\ err' = ""
             ELSE /\ written' = <<>>
                  /\ Fail("generate do not edit sign file")
    /\ before' = disk
    /\ idx' = 1
    /\ infos' = <<>>
    /\ log' = <<>>
    /\ aggregate' = ""
    /\ again' = (pc = "done")
    /\ UNCHANGED <<conf, declared, models, disk, call, lib>>

InLoop == pc = "loop" /\ idx <= Len(models)

\* the step after the loop body for model idx
NextModel ==
    /\ idx' = IF idx = Len(models) THEN 1 ELSE idx + 1
    /\ pc' = IF idx = Len(models) THEN "write" ELSE "loop"
    /\ err' = ""

\* the model's metadata cannot be read
ParseModelFails(model) == model.Malformed

\* history: what the loop body did for model idx
Entry(tableName, kind, at, compiled, checked, alter) ==
    [model |-> models[idx], table |-> tableName, ts |-> timestamp + 1, kind |-> kind,
     old |-> IF at = 0 THEN NoSnapshot ELSE snapshots[at],
     keep |-> conf.KeepDroppedColumn,
     schema |-> compiled.schema, indexes |-> compiled.indexes,
     hash |-> HashOf(models[idx], conf.QuoteChar),
     checked |-> checked, up |-> alter.up, down |-> alter.down]

\* parseModelToSQLWithIndexes returns an error: Generate returns it
GenerateParseError ==
    /\ InLoop
    /\ ParseModelFails(Models[models[idx]])
    /\ timestamp' = timestamp + 1
    /\ Fail("parse model")
    /\ UNCHANGED <<lib, call, again, conf, declared, models, snapshots, disk, written, idx, infos, aggregate,
                   now, before, log>>

\* a snapshot that misses the hash
newSnapshotWithoutHash(tableName, newHash, schema, indexes) ==
    [Name |-> tableName, Hash |-> "", Schema |-> schema, Indexes |-> indexes]

\* the snapshot Generate appends for a new table
newSnapshot(tableName, newHash, schema, indexes) ==
    [Name |-> tableName, Hash |-> newHash, Schema |-> schema, Indexes |-> indexes]

\* snapshot == nil: new table
GenerateCreate ==
    /\ InLoop
    /\ ~ParseModelFails(Models[models[idx]])
    /\ LET compiled == Compiled(models[idx], conf.QuoteChar)
           tableName == TableOf(models[idx])
           newHash == HashOf(models[idx], conf.QuoteChar)
       IN  /\ findSnapshot(snapshots, tableName) = 0
           /\ timestamp' = timestamp + 1
           /\ infos' = Append(infos,
                  generateMigrationFileInfo(conf, timestamp + 1, tableName,
                      compiled.schema, compiled.indexes, TRUE, NoAlter))
           /\ snapshots' = Append(snapshots,
                  newSnapshot(tableName, newHash, compiled.schema, compiled.indexes))
           /\ log' = Append(log, Entry(tableName, "create", 0, compiled, <<>>,
                  [up |-> <<compiled.schema>> \o compiled.indexes, down |-> <<>>]))
    /\ NextModel
    /\ UNCHANGED <<lib, call, again, conf, declared, models, disk, written, aggregate, now, before>>

\* snapshot.Hash == newHash: nothing to do
GenerateUnchanged ==
    /\ InLoop
    /\ ~ParseModelFails(Models[models[idx]])
    /\ LET compiled == Compiled(models[idx], conf.QuoteChar)
           tableName == TableOf(models[idx])
           newHash == HashOf(models[idx], conf.QuoteChar)
           at == findSnapshot(snapshots, tableName)
       IN  /\ at # 0
           /\ snapshots[at].Hash = newHash
           /\ log' = Append(log, Entry(tableName, "none", at, compiled, <<>>, NoAlter))
    /\ timestamp' = timestamp + 1
    /\ NextModel
    /\ UNCHANGED <<lib, call, again, conf, declared, models, snapshots, disk, written, infos, aggregate,
                   now, before>>

\* a snapshot that takes the new hash and keeps the old texts
staleSnapshot(snapshot, newHash, schema, indexes) ==
    [snapshot EXCEPT !.Hash = newHash]

\* the snapshot after snapshot.Hash, snapshot.Schema and snapshot.Indexes are
\* assigned
updatedSnapshot(snapshot, newHash, schema, indexes) ==
    [snapshot EXCEPT !.Hash = newHash, !.Schema = schema, !.Indexes = indexes]

\* snapshot.Hash != newHash and len(upStatements) > 0: table modification.
\* generateAlterStatements runs twice, in Generate and in
\* generateMigrationFileInfo, each with its own map iteration orders.
GenerateAlter ==
    /\ InLoop
    /\ ~ParseModelFails(Models[models[idx]])
    /\ LET compiled == Compiled(models[idx], conf.QuoteChar)
           tableName == TableOf(models[idx])
           newHash == HashOf(models[idx], conf.QuoteChar)
           at == findSnapshot(snapshots, tableName)
       IN  /\ at # 0
           /\ snapshots[at].Hash # newHash
           /\ \E checked, alter \in AlterResults(conf, snapshots, tableName,
                                                 compiled.schema, compiled.indexes) :
                     /\ Len(checked.up) > 0
                     /\ infos' = Append(infos,
                            generateMigrationFileInfo(conf, timestamp + 1,
                                tableName, compiled.schema, compiled.indexes,
                                FALSE, alter))
                     /\ snapshots' = [snapshots EXCEPT ![at] =
                            updatedSnapshot(@, newHash, compiled.schema,
                                            compiled.indexes)]
                     /\ log' = Append(log, Entry(tableName, "alter", at,
                            compiled, checked.up, alter))
    /\ timestamp' = timestamp + 1
    /\ NextModel
    /\ UNCHANGED <<lib, call, again, conf, declared, models, disk, written, aggregate, now, before>>

\* a round that stores the new hash although it emits nothing
GenerateCosmeticStoring ==
    /\ InLoop
    /\ ~ParseModelFails(Models[models[idx]])
    /\ LET compiled == Compiled(models[idx], conf.QuoteChar)
           tableName == TableOf(models[idx])
           newHash == HashOf(models[idx], conf.QuoteChar)
           at == findSnapshot(snapshots, tableName)
       IN  /\ at # 0
           /\ snapshots[at].Hash # newHash
           /\ \E checked \in AlterResults(conf, snapshots, tableName,
                                          compiled.schema, compiled.indexes) :
                     /\ Len(checked.up) = 0
                     /\ log' = Append(log, Entry(tableName, "none", at,
                            compiled, checked.up, NoAlter))
           /\ snapshots' = [snapshots EXCEPT ![at] =
                  updatedSnapshot(@, newHash, compiled.schema, compiled.indexes)]
    /\ timestamp' = timestamp + 1
    /\ NextModel
    /\ UNCHANGED <<lib, call, again, conf, declared, models, disk, written, infos, aggregate,
                   now, before>>

\* snapshot.Hash != newHash but len(upStatements) == 0: nothing is done
GenerateCosmetic ==
    /\ InLoop
    /\ ~ParseModelFails(Models[models[idx]])
    /\ LET compiled == Compiled(models[idx], conf.QuoteChar)
           tableName == TableOf(models[idx])
           newHash == HashOf(models[idx], conf.QuoteChar)
           at == findSnapshot(snapshots, tableName)
       IN  /\ at # 0
           /\ snapshots[at].Hash # newHash
           /\ \E checked \in AlterResults(conf, snapshots, tableName,
                                          compiled.schema, compiled.indexes) :
                     /\ Len(checked.up) = 0
                     /\ log' = Append(log, Entry(tableName, "none", at,
                            compiled, checked.up, NoAlter))
    /\ timestamp' = timestamp + 1
    /\ NextModel
    /\ UNCHANGED <<lib, call, again, conf, declared, models, snapshots, disk, written, infos, aggregate,
                   now, before>>

InWrite == pc = "write" /\ idx <= Len(infos)

UpFile(info) == [name |-> info.upFilename, content |-> wrapDoNotEdit(info.upContent)]
DownFile(info) == [name |-> info.downFilename, content |-> wrapDoNotEdit(info.downContent)]

\* one round of the loop over infos, all writes succeeding
GenerateWriteInfo ==
    /\ InWrite
    /\ IF conf.RawSQLAggregation
       THEN /\ aggregate' = aggregate \o NL \o infos[idx].upContent \o NL \o NL
            /\ UNCHANGED written
       ELSE /\ written' = written \o <<UpFile(infos[idx])>>
                   \o (IF infos[idx].downFilename # ""
                       THEN <<DownFile(infos[idx])>> ELSE <<>>)
            /\ UNCHANGED aggregate
    /\ idx' = idx + 1
    /\ UNCHANGED <<lib, call, again, conf, declared, models, snapshots, disk, pc, timestamp, infos, now,
                   err, before, log>>

\* a failed write after which the snapshots are saved all the same
GenerateWriteFailsSaving ==
    /\ InWrite
    /\ ~conf.RawSQLAggregation
    /\ Fail("write (" \o infos[idx].upFilename \o ")")
    /\ disk' = [exists |-> TRUE, doc |-> snapshots]
    /\ UNCHANGED <<lib, call, again, conf, declared, models, snapshots, written, timestamp, idx,
                   infos, aggregate, now, before, log>>

\* os.WriteFile of the up file or of the down file fails
GenerateWriteFails ==
    /\ InWrite
    /\ ~conf.RawSQLAggregation
    /\ \/ /\ Fail("write (" \o infos[idx].upFilename \o ")")
          /\ UNCHANGED written
       \/ /\ infos[idx].downFilename # ""
          /\ Fail("write (" \o infos[idx].downFilename \o ")")
          /\ written' = Append(written, UpFile(infos[idx]))
    /\ UNCHANGED <<lib, call, again, conf, declared, models, snapshots, disk, timestamp, idx, infos,
                   aggregate, now, before, log>>

AtEnd == pc = "write" /\ idx > Len(infos)

Aggregating == conf.RawSQLAggregation /\ Len(aggregate) # 0

AggregationFile ==
    [name |-> "aggregation.sql",
     content |-> "\n\n-- " \o ToString(TimeBase + now)
                     \o "\n-- Generate by https://github.com/yanun0323/gem\n"
                     \o aggregate]

\* opening or writing aggregation.sql fails
GenerateAggregationFails ==
    /\ AtEnd
    /\ Aggregating
    /\ Fail("open or write (aggregation.sql)")
    /\ UNCHANGED <<lib, call, again, conf, declared, models, snapshots, disk, written, timestamp, idx, infos,
                   aggregate, now, before, log>>

\* the aggregation file if any, then saveSnapshots; the write of
\* snapshots.json succeeds
GenerateSave ==
    /\ AtEnd
    /\ written' = IF Aggregating THEN Append(written, AggregationFile) ELSE written
    /\ disk' = [exists |-> TRUE, doc |-> snapshots]
    /\ pc' = "done"
    /\ err' = ""
    /\ UNCHANGED <<lib, call, again, conf, declared, models, snapshots, timestamp, idx, infos, aggregate,
                   now, before, log>>

\* the aggregation file if any, then saveSnapshots; the write of
\* snapshots.json fails and leaves the file as it was
GenerateSaveFails ==
    /\ AtEnd
    /\ written' = IF Aggregating THEN Append(written, AggregationFile) ELSE written
    /\ Fail("write snapshots")
    /\ UNCHANGED <<lib, call, again, conf, declared, models, snapshots, disk, timestamp, idx, infos, aggregate,
                   now, before, log>>

Next ==
    \/ New
    \/ AddModels
    \/ GenerateNothing
    \/ GenerateMkdirFails
    \/ GenerateBegin
    \/ GenerateParseError
    \/ GenerateCreate
    \/ GenerateUnchanged
    \/ GenerateAlter
    \/ GenerateCosmetic
    \/ GenerateWriteInfo
    \/ GenerateWriteFails
    \/ GenerateAggregationFails
    \/ GenerateSave
    \/ GenerateSaveFails

Spec == Init /\ [][Next]_vars

(***************************************************************************)
(* The diff engine on its own: generateAlterStatements called by a         *)
(* migrator whose only snapshot was made from one version of a model, with *)
(* the texts compiled from another version of the same table.              *)
(***************************************************************************)
DefaultConfig ==
    [Tool |-> "RawSQL", QuoteChar |-> BQ, KeepDroppedColumn |-> FALSE,
     RawSQLAggregation |-> FALSE]

\* the snapshot Generate stores for a model
SnapshotOf(id, quoteChar) ==
    [Name |-> TableOf(id), Hash |-> HashOf(id, quoteChar),
     Schema |-> Compiled(id, quoteChar).schema,
     Indexes |-> Compiled(id, quoteChar).indexes]

DiffInit == Fresh(DefaultConfig, {})

\* the call with the flag as given and, over the same map iteration orders,
\* with the flag flipped
Compare ==
    /\ \E old \in ModelIds, new \in ModelIds, keep \in BOOLEAN, q \in QuoteChars :
          /\ TableOf(old) = TableOf(new)
          /\ \E snaps \in {<<SnapshotOf(old, q)>>}, compiled \in {Compiled(new, q)} :
                \E ord \in AlterOrders(snaps, TableOf(new), compiled.schema,
                                        compiled.indexes) :
                   \E alter \in {generateAlterStatements(
                                      [DefaultConfig EXCEPT !.KeepDroppedColumn = keep],
                                      snaps, TableOf(new), compiled.schema,
                                      compiled.indexes, ord)},
                      other \in {generateAlterStatements(
                                      [DefaultConfig EXCEPT !.KeepDroppedColumn = ~keep],
                                      snaps, TableOf(new), compiled.schema,
                                      compiled.indexes, ord)} :
                      call' = [old |-> old, new |-> new, tableName |-> TableOf(new),
                               keep |-> keep, quoteChar |-> q,
                               up |-> alter.up, down |-> alter.down,
                               flipped |-> other]
    /\ UNCHANGED <<runVars, lib>>

DiffNext == Compare

DiffSpec == DiffInit /\ [][DiffNext]_vars

(***************************************************************************)
(* The index comparison on its own: compareIndexes called with the index   *)
(* texts of a snapshot and the index texts compiled now, both holding one  *)
(* index of the same name on table users.                                  *)
(***************************************************************************)
MaxIndexColumns == 2    \* most columns of the index compared

IndexColumnPool == {"name", "email_address", "age"}

\* the column lists an index can have: distinct columns, in any order
IndexColumnLists ==
    {cols \in UNION {[1..n -> IndexColumnPool] : n \in 1..MaxIndexColumns} :
        \A a, b \in 1..Len(cols) : cols[a] = cols[b] => a = b}

\* what parseModel collects for fields tagged index:idx_pair (or
\* uniqueIndex:idx_pair) without priorities, declared in the order of columns
PairIndex(columns, isUnique) ==
    [Name |-> "idx_pair", Columns |-> columns, IsUnique |-> isUnique,
     Priorities |-> [c \in Range(columns) |-> 0]]

IndexInit == Fresh(DefaultConfig, {})

CompareIndexes ==
    /\ ~Called
    /\ \E oldColumns \in IndexColumnLists, newColumns \in IndexColumnLists,
          oldUnique \in BOOLEAN, newUnique \in BOOLEAN, q \in QuoteChars :
          call' = [oldColumns |-> oldColumns, newColumns |-> newColumns,
                   oldUnique |-> oldUnique, newUnique |-> newUnique,
                   quoteChar |-> q,
                   ops |-> compareIndexes(
                       <<indexStatement(PairIndex(oldColumns, oldUnique), "users", q)>>,
                       <<indexStatement(PairIndex(newColumns, newUnique), "users", q)>>,
                       <<"idx_pair">>, <<"idx_pair">>)]
    /\ UNCHANGED <<runVars, lib>>

IndexNext == CompareIndexes

IndexSpec == IndexInit /\ [][IndexNext]_vars

(***************************************************************************)
(* The column compiler on its own: parseField called on one field of any   *)
(* kind, pointer or not, whose tag holds some of the options below, written *)
(* in the order of OptionPool or in the reverse order.                     *)
(***************************************************************************)
MaxOptions == 4    \* most options in the tag of the field

FieldKinds ==
    {"bool", "int", "int8", "int16", "int32", "int64", "uint", "uint8", "uint16",
     "uint32", "uint64", "float32", "float64", "string", "[]byte", "time.Time",
     "complex128"}

OptionPool ==
    << <<"comment", "'years'">>, <<"default", "18">>, <<"not null">>, <<"unique">>,
       <<"check", "age > 13">>, <<"autoIncrement">>, <<"primaryKey">>,
       <<"type", "text">>, <<"precision", "10">>, <<"scale", "2">>, <<"size", "64">> >>

\* the options at the chosen positions of the pool, in pool order
RECURSIVE OptionsAt(_, _)
OptionsAt(chosen, i) ==
    IF i > Len(OptionPool) THEN <<>>
    ELSE (IF i \in chosen THEN <<OptionPool[i]>> ELSE <<>>) \o OptionsAt(chosen, i + 1)

Reverse(seq) == [k \in 1..Len(seq) |-> seq[Len(seq) + 1 - k]]

FieldTags ==
    UNION {{OptionsAt(chosen, 1), Reverse(OptionsAt(chosen, 1))} :
              chosen \in {c \in SUBSET (1..Len(OptionPool)) : Cardinality(c) <= MaxOptions}}

FieldInit == Fresh(DefaultConfig, {})

RenderField ==
    /\ ~Called
    /\ \E kind \in FieldKinds, ptr \in BOOLEAN, tag \in FieldTags :
          \E field \in {Fld("Age", kind, ptr, tag)} :
             call' = [field |-> field,
                      sqlType |-> getSQLType(field),
                      constraints |-> fieldConstraints(field),
                      column |-> parseField(field, conf.QuoteChar)]
    /\ UNCHANGED <<runVars, lib>>

FieldNext == RenderField

FieldSpec == FieldInit /\ [][FieldNext]_vars

(***************************************************************************)
(* The compiler on its own: parseModelToSQLWithIndexes called on a model   *)
(* User (TableName() = "users") made of some of the fields below, and       *)
(* parseCreateTable called on the CREATE TABLE text it returns.            *)
(***************************************************************************)
MaxFields == 2    \* most fields of the model compiled

cID == Fld("ID", "uint", FALSE, <<<<"primaryKey">>, <<"autoIncrement">>>>)
cName == Fld("Name", "string", FALSE,
             <<<<"size", "100">>, <<"not null">>, <<"index", "idx_name">>>>)
cEmail == Fld("Email", "string", FALSE,
              <<<<"column", "email_address">>, <<"size", "150">>, <<"uniqueIndex">>>>)
cAge == Fld("Age", "int", TRUE, <<<<"default", "18">>, <<"index">>>>)
cPrice == Fld("Price", "float64", FALSE,
              <<<<"precision", "10">>, <<"scale", "2">>, <<"check", "price > 0">>,
                <<"comment", "'net, in cents'">>>>)
cFirst == Fld("First", "string", FALSE, <<<<"uniqueIndex", "udx_pair,priority:2">>>>)
cSecond == Fld("Second", "string", FALSE, <<<<"uniqueIndex", "udx_pair,priority:1">>>>)
cThird == Fld("Third", "string", FALSE, <<<<"uniqueIndex", "udx_pair,priority:x">>>>)
cFourth == Fld("Fourth", "string", FALSE, <<<<"uniqueIndex", "udx_pair">>>>)
cAddress ==
    Struct("Address",
           <<Fld("Street", "string", FALSE,
                 <<<<"size", "200">>, <<"not null">>, <<"index", "idx_name">>>>),
             Fld("City", "string", FALSE, <<<<"size", "100">>, <<"index">>>>)>>,
           <<<<"embedded">>, <<"embeddedPrefix", "address_">>>>)

\* a field kept out of the migration that carries an index option
cSecret == Fld("Secret", "string", FALSE, <<<<"-", "migration">>, <<"index">>>>)

CompileFields == {cID, cName, cEmail, cAge, cPrice, cFirst, cSecond, cThird, cFourth,
                  cAddress, cSecret}

\* the field lists of the models compiled: distinct fields, in any order
FieldLists ==
    {fields \in UNION {[1..n -> CompileFields] : n \in 1..MaxFields} :
        \A a, b \in 1..Len(fields) : fields[a] = fields[b] => a = b}

CompileInit == Fresh(DefaultConfig, {})

Compile ==
    /\ ~Called
    /\ \E fields \in FieldLists, q \in QuoteChars :
          \E model \in {Mdl("User", TRUE, "users", fields)} :
             \E compiled \in {parseModelToSQLWithIndexes(model, q)} :
                call' = [fields |-> fields, quoteChar |-> q,
                         tableName |-> getTableName(model),
                         schema |-> compiled.schema, indexes |-> compiled.indexes,
                         parsed |-> parseCreateTable(compiled.schema)]
    /\ UNCHANGED <<runVars, lib>>

CompileNext == Compile

CompileSpec == CompileInit /\ [][CompileNext]_vars

(***************************************************************************)
(* The hash on its own: generateHash called on a schema text and at most   *)
(* one index text, texts of letters, spaces, tabs and newlines.            *)
(***************************************************************************)
MaxTextLen == 3    \* most characters of a hashed text

TextChars == {"a", " ", TAB, NL}

RECURSIVE TextsOf(_)
TextsOf(n) ==
    IF n = 0 THEN {""}
    ELSE TextsOf(n - 1) \cup {t \o c : t \in TextsOf(n - 1), c \in TextChars}

Texts == TextsOf(MaxTextLen)

HashInit == Fresh(DefaultConfig, {})

Hash ==
    /\ ~Called
    /\ \E schema \in Texts, indexes \in {<<>>} \cup {<<t>> : t \in Texts} :
          call' = [schema |-> schema, indexes |-> indexes,
                   hash |-> generateHash(schema, indexes)]
    /\ UNCHANGED <<runVars, lib>>

HashNext == Hash

HashSpec == HashInit /\ [][HashNext]_vars

(***************************************************************************)
(* The column comparison on its own: compareColumns called on two versions *)
(* of table users that both have the columns id and age, age with a type   *)
(* and a list of constraint words of its own in each.                      *)
(***************************************************************************)
MaxConstraints == 2    \* most constraint words of the column compared

ColumnTypes == {"INTEGER", "BIGINT"}

ConstraintWords == {"UNIQUE", "NOT", "NULL"}

ConstraintLists ==
    {cs \in UNION {[1..n -> ConstraintWords] : n \in 0..MaxConstraints} :
        \A a, b \in 1..Len(cs) : cs[a] = cs[b] => a = b}

idColumn == [Name |-> "id", Type |-> "INTEGER", Constraints |-> <<"NOT", "NULL">>]

ageColumn(type, constraints) == [Name |-> "age", Type |-> type, Constraints |-> constraints]

ColumnsInit == Fresh(DefaultConfig, {})

CompareColumns ==
    /\ ~Called
    /\ \E oldType \in ColumnTypes, newType \in ColumnTypes,
          oldConstraints \in ConstraintLists, newConstraints \in ConstraintLists,
          keep \in BOOLEAN :
          \E oldCols \in {<<idColumn, ageColumn(oldType, oldConstraints)>>},
             newCols \in {<<idColumn, ageColumn(newType, newConstraints)>>} :
             \E newOrder \in MapOrders(ColumnNames(newCols),
                                         ActingColumns(oldCols, newCols)),
                oldOrder \in MapOrders(ColumnNames(oldCols), {}) :
                call' = [oldCol |-> oldCols[2], newCol |-> newCols[2], keep |-> keep,
                         ops |-> compareColumns(keep, "users", oldCols, newCols,
                                                newOrder, oldOrder)]
    /\ UNCHANGED <<runVars, lib>>

ColumnsNext == CompareColumns

ColumnsSpec == ColumnsInit /\ [][ColumnsNext]_vars

(***************************************************************************)
(* The index diff on its own: compareIndexes called with two lists of      *)
(* index texts of table users, each holding or not an index idx_pair of    *)
(* any definition and an index idx_age on the column age.                  *)
(***************************************************************************)
\* the index texts of a version of the table: "" stands for no index
IndexList(pairText, ageText) ==
    (IF ageText # "" THEN <<ageText>> ELSE <<>>)
        \o (IF pairText # "" THEN <<pairText>> ELSE <<>>)

PairTexts ==
    {""} \cup {indexStatement(PairIndex(columns, isUnique), "users", BQ) :
                  columns \in IndexColumnLists, isUnique \in BOOLEAN}

AgeTexts == {"", indexStatement(indexInfo("idx_age", "age", FALSE, 0), "users", BQ)}

IndexSetInit == Fresh(DefaultConfig, {})

CompareIndexLists ==
    /\ ~Called
    /\ \E oldPair \in PairTexts, newPair \in PairTexts,
          oldAge \in AgeTexts, newAge \in AgeTexts :
          \E oldIndexMap \in {parseIndexes(IndexList(oldPair, oldAge))},
             newIndexMap \in {parseIndexes(IndexList(newPair, newAge))} :
             \E newOrder \in MapOrders(DOMAIN newIndexMap,
                                         ActingIndexes(oldIndexMap, newIndexMap)),
                oldOrder \in MapOrders(DOMAIN oldIndexMap,
                                         DOMAIN oldIndexMap \ DOMAIN newIndexMap) :
                call' = [oldPair |-> oldPair, newPair |-> newPair,
                         oldAge |-> oldAge, newAge |-> newAge,
                         ops |-> compareIndexes(IndexList(oldPair, oldAge),
                                                IndexList(newPair, newAge),
                                                newOrder, oldOrder)]
    /\ UNCHANGED <<runVars, lib>>

IndexSetNext == CompareIndexLists

IndexSetSpec == IndexSetInit /\ [][IndexSetNext]_vars

(***************************************************************************)
(* Properties of Generate (specification Spec)                             *)
(***************************************************************************)
\* the loop round Generate finished last in the current call
LastEntry == log[Len(log)]

\* the names of the tables the snapshots in snaps track
Tracked(snaps) == {snaps[k].Name : k \in 1..Len(snaps)}

\* C1: when the model Generate has just processed had no snapshot for its
\* table, the round appended a create migration (named <prefix>_create_<table>,
\* holding the schema text) and appended the snapshot [table name, new hash,
\* schema text, index texts]; and once Generate has returned nil every table it
\* processed is tracked by the snapshot file.
C1_AbsentBecomesTracked ==
    /\ (log # <<>> /\ LastEntry.old = NoSnapshot) =>
          /\ infos # <<>>
          /\ HasPrefix(infos[Len(infos)].upFilename,
                       ToString(LastEntry.ts) \o "_create_" \o LastEntry.table)
          /\ Contains(infos[Len(infos)].upContent,
                      Compiled(LastEntry.model, conf.QuoteChar).schema)
          /\ snapshots # <<>>
          /\ snapshots[Len(snapshots)] =
                 [Name |-> TableOf(LastEntry.model),
                  Hash |-> HashOf(LastEntry.model, conf.QuoteChar),
                  Schema |-> Compiled(LastEntry.model, conf.QuoteChar).schema,
                  Indexes |-> Compiled(LastEntry.model, conf.QuoteChar).indexes]
    /\ pc = "done" =>
          \A k \in 1..Len(log) : log[k].table \in Tracked(disk.doc)

\* a call that created a table and returned nil
C1_Witness ==
    /\ pc = "done"
    /\ \E k \in 1..Len(log) :
          /\ log[k].old = NoSnapshot
          /\ log[k].kind = "create"
          /\ log[k].table \in Tracked(disk.doc)

\* what the diff of the last round's model against the snapshot it met can
\* return
LastDiffs ==
    AlterResults(conf, <<LastEntry.old>>, LastEntry.table,
                 Compiled(LastEntry.model, conf.QuoteChar).schema,
                 Compiled(LastEntry.model, conf.QuoteChar).indexes)

\* the last round met a snapshot of its table whose hash differs from the new one
LastHashDiffers ==
    /\ log # <<>>
    /\ LastEntry.old # NoSnapshot
    /\ LastEntry.old.Hash # HashOf(LastEntry.model, conf.QuoteChar)

\* the infos of the current call whose file name carries the prefix of the
\* last round
LastInfos ==
    {k \in 1..Len(infos) : HasPrefix(infos[k].upFilename, ToString(LastEntry.ts) \o "_")}

\* C2: when the model Generate has just processed met a snapshot with another
\* hash and the diff has up statements, the round appended exactly one alter
\* migration and the snapshot of the table now holds the new hash, schema text
\* and index texts, in the place it had.
C2_RealChangeEmitsOneAlter ==
    (LastHashDiffers /\ \A r \in LastDiffs : Len(r.up) > 0) =>
        /\ Cardinality(LastInfos) = 1
        /\ LastInfos = {Len(infos)}
        /\ HasPrefix(infos[Len(infos)].upFilename,
                     ToString(LastEntry.ts) \o "_alter_" \o LastEntry.table)
        /\ \E at \in 1..Len(snapshots) :
              /\ at = findSnapshot(snapshots, LastEntry.table)
              /\ snapshots[at] =
                     [Name |-> LastEntry.table,
                      Hash |-> HashOf(LastEntry.model, conf.QuoteChar),
                      Schema |-> Compiled(LastEntry.model, conf.QuoteChar).schema,
                      Indexes |-> Compiled(LastEntry.model, conf.QuoteChar).indexes]

\* a round that emitted an alter migration for a tracked table
C2_Witness ==
    /\ LastHashDiffers
    /\ \A r \in LastDiffs : Len(r.up) > 0
    /\ LastEntry.kind = "alter"
    /\ Cardinality(LastInfos) = 1

\* C3: when the model Generate has just processed met a snapshot with another
\* hash but the diff has no up statement, the round appended no migration and
\* the snapshot of the table is the one the round met.
C3_CosmeticChangeLeavesBaseline ==
    (LastHashDiffers /\ \A r \in LastDiffs : Len(r.up) = 0) =>
        /\ LastInfos = {}
        /\ snapshots[findSnapshot(snapshots, LastEntry.table)] = LastEntry.old
        /\ pc = "done" => disk.doc[findSnapshot(disk.doc, LastEntry.table)] = LastEntry.old

\* a round whose model compiles to another hash than the stored one while the
\* diff is empty
C3_Witness ==
    /\ LastHashDiffers
    /\ \A r \in LastDiffs : Len(r.up) = 0
    /\ LastEntry.kind = "none"
    /\ pc = "done"

\* C4: a call of Generate made right after a call that returned nil, with the
\* same models and configuration, produces no migration.
C4_SecondRunEmitsNothing == again => infos = <<>>

\* the rounds of the current call that produced a migration
Emitting == {k \in 1..Len(log) : log[k].kind # "none"}

\* C5: in one call of Generate at most one migration (create or alter) is
\* produced per table name.
C5_OneMigrationPerTable ==
    /\ Len(infos) = Cardinality(Emitting)
    /\ \A j, k \in Emitting : log[j].table = log[k].table => j = k

\* C6: the models are held and processed in non-decreasing order of table
\* name, each round takes a prefix greater than the round before it, and the
\* files of one call carry the prefixes of their rounds: increasing, and
\* following the order of the table names.
C6_OrderedDistinctPrefixes ==
    /\ \A a, b \in 1..Len(models) :
          a < b => ~StrLess(TableOf(models[b]), TableOf(models[a]))
    /\ \A k \in 1..Len(log) :
          /\ log[k].model = models[k]
          /\ k > 1 => log[k].ts > log[k - 1].ts
          /\ k > 1 => ~StrLess(log[k].table, log[k - 1].table)
    /\ \A i \in 1..Len(infos) :
          /\ \E k \in Emitting :
                HasPrefix(infos[i].upFilename,
                          ToString(log[k].ts) \o "_" \o log[k].kind \o "_" \o log[k].table)
          /\ i > 1 => ScanInt(infos[i].upFilename) > ScanInt(infos[i - 1].upFilename)

\* a call that emitted migrations for two tables
C6_Witness ==
    /\ pc = "done"
    /\ Len(infos) = 2
    /\ log[1].table # log[2].table
    /\ ScanInt(infos[2].upFilename) > ScanInt(infos[1].upFilename)

\* C7: a call of Generate that returns an error leaves the snapshot file as
\* it was when the call began; after a compile error the failing model is the
\* one the loop stopped at and nothing but the sign file was written; after a
\* failed write no later migration file was written.
C7_FailureCommitsNothing ==
    pc = "failed" =>
        /\ disk = before
        /\ err = "parse model" =>
              /\ ParseModelFails(Models[models[idx]])
              /\ Len(log) = idx - 1
              /\ written = <<SignFile>>
        /\ (HasPrefix(err, "write (") /\ ~HasPrefix(err, "write snapshots")) =>
              \A k \in idx + 1..Len(infos), w \in 1..Len(written) :
                  written[w].name \notin {infos[k].upFilename, infos[k].downFilename}

\* a call stopped by a model that does not compile, and a call stopped by a
\* failed file write, with migrations pending
C7_Witness ==
    /\ pc = "failed"
    /\ \/ err = "parse model" /\ infos # <<>>
       \/ HasPrefix(err, "write (") /\ idx < Len(infos)
    /\ snapshots # disk.doc

\* C8: when Generate has returned nil, every table the snapshot file tracked
\* when the call began is still tracked, no two snapshots have the same table
\* name, and the snapshot of a table that has no model in the run is unchanged.
C8_SnapshotsNeverRemoved ==
    /\ \A j, k \in 1..Len(disk.doc) : disk.doc[j].Name = disk.doc[k].Name => j = k
    /\ pc = "done" =>
          /\ Tracked(before.doc) \subseteq Tracked(disk.doc)
          /\ \A k \in 1..Len(before.doc) :
                before.doc[k].Name \notin {TableOf(models[i]) : i \in 1..Len(models)}
                    => \E j \in 1..Len(disk.doc) : disk.doc[j] = before.doc[k]

\* a call that changed the snapshot file while a tracked table had no model
\* in the run
C8_Witness ==
    /\ pc = "done"
    /\ disk.doc # before.doc
    /\ \E k \in 1..Len(before.doc) :
          /\ before.doc[k].Name \notin {TableOf(models[i]) : i \in 1..Len(models)}
          /\ \E j \in 1..Len(disk.doc) : disk.doc[j] = before.doc[k]

(***************************************************************************)
(* Properties of the diff engine (specification DiffSpec)                  *)
(***************************************************************************)
\* the quote characters with which the compiler writes backticks
Backticks == {BQ, ""}

RemoveAt(seq, k) == SubSeq(seq, 1, k - 1) \o SubSeq(seq, k + 1, Len(seq))

\* the positions in the fields of model new of a field whose removal leaves
\* the fields of model old
AddedAt(old, new) ==
    {k \in 1..Len(Models[new].Fields) :
        RemoveAt(Models[new].Fields, k) = Models[old].Fields}

AddColumnHead(tableName, columnName) ==
    "ALTER TABLE " \o BQ \o tableName \o BQ \o " ADD COLUMN " \o BQ \o columnName \o BQ \o " "

DropColumnText(tableName, columnName) ==
    "ALTER TABLE " \o BQ \o tableName \o BQ \o " DROP COLUMN " \o BQ \o columnName \o BQ \o ";"

\* C9: when the new model is the snapshot's model with one field added
\* (wherever it is declared, with or without a primary key), the diff is one
\* ADD COLUMN up statement for that column, with one DROP COLUMN down statement
\* for it, and nothing else.
C9_OneAddedField ==
    (Called /\ call.quoteChar \in Backticks) =>
        \A k \in AddedAt(call.old, call.new) :
            /\ Len(call.up) = 1
            /\ HasPrefix(call.up[1],
                   AddColumnHead(call.tableName,
                                 getColumnName(Models[call.new].Fields[k])))
            /\ call.down = <<DropColumnText(call.tableName,
                                 getColumnName(Models[call.new].Fields[k]))>>

\* the fields of model old whose column no field of model new has
DroppedFields(old, new) ==
    {k \in 1..Len(Models[old].Fields) :
        \A j \in 1..Len(Models[new].Fields) :
            getColumnName(Models[new].Fields[j]) # getColumnName(Models[old].Fields[k])}

\* the statements of stmts that name the column
Naming(stmts, columnName) ==
    {i \in 1..Len(stmts) : Contains(stmts[i], BQ \o columnName \o BQ \o " ")
                              \/ Contains(stmts[i], BQ \o columnName \o BQ \o ";")}

\* stmts without the statements that drop or add back a column
WithoutDrops(stmts, tableName, columns) ==
    SelectSeq(stmts, LAMBDA st :
        \A c \in columns : /\ st # DropColumnText(tableName, c)
                            /\ ~HasPrefix(st, AddColumnHead(tableName, c)))

\* C10: for every column of the old schema that the new one lacks, with
\* KeepDroppedColumn the diff has no statement for the column, and without it
\* the diff has exactly one operation for it, DROP COLUMN up and ADD COLUMN with
\* the old definition down; the other operations are the same with the flag
\* set and unset.
C10_DroppedColumnFollowsFlag ==
    (Called /\ call.quoteChar \in Backticks) =>
        /\ \A k \in DroppedFields(call.old, call.new) :
              LET field == Models[call.old].Fields[k]
                  columnName == getColumnName(field)
              IN  IF call.keep
                  THEN Naming(call.up, columnName) = {}
                           /\ Naming(call.down, columnName) = {}
                  ELSE /\ Cardinality(Naming(call.up, columnName)) = 1
                       /\ \E i \in 1..Len(call.up) :
                             call.up[i] = DropColumnText(call.tableName, columnName)
                       /\ Cardinality(Naming(call.down, columnName)) = 1
                       /\ \E i \in 1..Len(call.down) :
                             call.down[i] = "ALTER TABLE " \o BQ \o call.tableName \o BQ
                                 \o " ADD COLUMN " \o parseField(field, BQ) \o ";"
        /\ LET dropped == {getColumnName(Models[call.old].Fields[k]) :
                               k \in DroppedFields(call.old, call.new)}
           IN  /\ WithoutDrops(call.up, call.tableName, dropped)
                      = WithoutDrops(call.flipped.up, call.tableName, dropped)
               /\ WithoutDrops(call.down, call.tableName, dropped)
                      = WithoutDrops(call.flipped.down, call.tableName, dropped)

HasPrimaryKey(id) == FirstPrimaryKey(Models[id].Fields, 1) # ""

\* C11: as the comment on Config.KeepDroppedColumn says: with the flag set, the
\* down migration restores a column dropped from the model; with the flag
\* unset, the down migration does not bring the column back.
C11_DocumentedKeepDroppedColumn ==
    (Called /\ call.quoteChar \in Backticks
            /\ HasPrimaryKey(call.old) /\ HasPrimaryKey(call.new)) =>
        \A k \in DroppedFields(call.old, call.new) :
            IF call.keep
            THEN \E i \in 1..Len(call.down) :
                    HasPrefix(call.down[i],
                        AddColumnHead(call.tableName,
                                      getColumnName(Models[call.old].Fields[k])))
            ELSE \A i \in 1..Len(call.down) :
                    ~HasPrefix(call.down[i],
                        AddColumnHead(call.tableName,
                                      getColumnName(Models[call.old].Fields[k])))

(***************************************************************************)
(* Properties of the index comparison (specification IndexSpec)            *)
(***************************************************************************)
\* C12: two definitions of one index with the same uniqueness and the same
\* columns, in whatever order, yield no index operation; a difference in
\* uniqueness or in the set of columns yields exactly one.
C12_IndexComparison ==
    Called =>
        IF call.oldUnique = call.newUnique
               /\ Range(call.oldColumns) = Range(call.newColumns)
        THEN call.ops = <<>>
        ELSE Len(call.ops) = 1

C12_Witness ==
    /\ Called
    /\ call.oldUnique = call.newUnique
    /\ call.oldColumns # call.newColumns
    /\ Range(call.oldColumns) = Range(call.newColumns)
    /\ call.ops = <<>>

(***************************************************************************)
(* Properties of the column compiler (specification FieldSpec)             *)
(***************************************************************************)
TagKeys(field) == {field.Tag[k][1] : k \in 1..Len(field.Tag)}

\* the place of a rendered constraint in the order auto-increment, check,
\* unique, not-null, default, comment
Rank(constraint) ==
    CASE constraint = "AUTO_INCREMENT" -> 1
      [] HasPrefix(constraint, "CHECK (") -> 2
      [] constraint = "UNIQUE" -> 3
      [] constraint = "NOT NULL" -> 4
      [] HasPrefix(constraint, "DEFAULT ") -> 5
      [] HasPrefix(constraint, "COMMENT '") -> 6
      [] OTHER -> 0

InFixedOrder(constraints) ==
    /\ \A k \in 1..Len(constraints) : Rank(constraints[k]) > 0
    /\ \A a, b \in 1..Len(constraints) :
          a < b => Rank(constraints[a]) < Rank(constraints[b])

\* the rendered column ends with the constraints, separated by spaces
RendersConstraints ==
    IF call.constraints = <<>> THEN call.column = BQ \o "age" \o BQ \o " " \o call.sqlType
    ELSE call.column = BQ \o "age" \o BQ \o " " \o call.sqlType \o " "
                           \o Join(call.constraints, " ")

WithoutAutoIncrement(constraints) ==
    SelectSeq(constraints, LAMBDA c : c # "AUTO_INCREMENT")

FourAnnotations == {"check", "unique", "default", "comment"}

HasNullMarker == HasSuffix(call.sqlType, " NULL")
HasNotNull == "NOT NULL" \in Range(call.constraints)

KindTable(kind, size) ==
    CASE kind = "bool" -> "BOOLEAN"
      [] kind \in {"int", "int32"} -> "INTEGER"
      [] kind = "int8" -> "TINYINT"
      [] kind = "int16" -> "SMALLINT"
      [] kind = "int64" -> "BIGINT"
      [] kind \in {"uint", "uint32"} -> "INTEGER UNSIGNED"
      [] kind = "uint8" -> "TINYINT UNSIGNED"
      [] kind = "uint16" -> "SMALLINT UNSIGNED"
      [] kind = "uint64" -> "BIGINT UNSIGNED"
      [] kind = "float32" -> "FLOAT"
      [] kind = "float64" -> "DOUBLE"
      [] kind = "string" -> "VARCHAR(" \o size \o ")"
      [] kind = "[]byte" -> "BLOB"
      [] kind = "time.Time" -> "DATETIME"
      [] OTHER -> "VARCHAR(255)"

\* C17: the type is the explicit type upper-cased, else DECIMAL(p[,s]) of the
\* precision option, else the entry of the table for the kind; a pointer field
\* that is not the primary key gets the suffix " NULL".
C17_TypeDerivation ==
    Called =>
        LET keys == TagKeys(call.field)
            derived == IF "type" \in keys THEN "TEXT"
                       ELSE IF "precision" \in keys
                       THEN IF "scale" \in keys THEN "DECIMAL(10,2)" ELSE "DECIMAL(10)"
                       ELSE KindTable(call.field.Kind,
                                      IF "size" \in keys THEN "64" ELSE "255")
        IN  call.sqlType
                = derived \o (IF call.field.Ptr /\ "primaryKey" \notin keys
                              THEN " NULL" ELSE "")

(***************************************************************************)
(* Properties of the compiler (specification CompileSpec)                  *)
(***************************************************************************)
IsEmbedded(field) == field.Anonymous \/ hasTag(field, "embedded")

\* the field is kept out of the migration
IsIgnored(field) == getTagValue(field, "-") \in {"all", "migration"}

\* the column definition a field produces
ColumnOf(field, prefix) ==
    [Name |-> prefix \o getColumnName(field), Type |-> getSQLType(field),
     Constraints |-> fieldConstraints(field)]

\* the column definitions the fields produce, embedded structures flattened
RECURSIVE ProducedColumns(_, _, _)
ProducedColumns(fields, k, prefix) ==
    IF k > Len(fields) THEN <<>>
    ELSE (IF IsEmbedded(fields[k])
          THEN ProducedColumns(fields[k].Sub, 1, getTagValue(fields[k], "embeddedPrefix"))
          ELSE IF IsIgnored(fields[k]) THEN <<>>
          ELSE <<ColumnOf(fields[k], prefix)>>)
         \o ProducedColumns(fields, k + 1, prefix)

\* the words of the type and of the constraints of a column
Words(column) == Fields(Join(<<column.Type>> \o column.Constraints, " "))

\* C13: parseCreateTable on the CREATE TABLE text compiled from a model
\* returns one column for each column the fields produced, in their order,
\* each with the name and, word for word, the type and the constraints of its
\* definition: no column is lost.
C13_RoundTrip ==
    (Called /\ call.quoteChar \in Backticks) =>
        LET produced == ProducedColumns(call.fields, 1, "")
        IN  /\ ~call.parsed.err
            /\ Len(call.parsed.Columns) = Len(produced)
            /\ \A k \in 1..Len(produced) :
                  /\ call.parsed.Columns[k].Name = produced[k].Name
                  /\ Words(call.parsed.Columns[k]) = Words(produced[k])

\* the fields of the model, embedded structures flattened, each with the
\* prefix of its column
RECURSIVE Flattened(_, _, _)
Flattened(fields, k, prefix) ==
    IF k > Len(fields) THEN <<>>
    ELSE (IF IsEmbedded(fields[k])
          THEN Flattened(fields[k].Sub, 1, getTagValue(fields[k], "embeddedPrefix"))
          ELSE <<[field |-> fields[k], column |-> prefix \o getColumnName(fields[k])]>>)
         \o Flattened(fields, k + 1, prefix)

\* the fields declared directly in the model
Direct(fields) ==
    SelectSeq([k \in 1..Len(fields) |->
                  [field |-> fields[k], column |-> getColumnName(fields[k])]],
              LAMBDA e : ~IsEmbedded(e.field))

\* the index name written in an index or uniqueIndex option ("" when the
\* option has no name), and its priority as the tags below write it
NameIn(field, key) ==
    IF Contains(getTagValue(field, key), ",")
    THEN SubSeq(getTagValue(field, key), 1, Index(getTagValue(field, key), ",") - 1)
    ELSE getTagValue(field, key)

PriorityIn(field, key) ==
    IF HasSuffix(getTagValue(field, key), ",priority:2") THEN 2
    ELSE IF HasSuffix(getTagValue(field, key), ",priority:1") THEN 1
    ELSE 0

\* the positions in entries of the fields that tag the index name with key
Members(entries, key, name) ==
    {k \in 1..Len(entries) :
        hasTag(entries[k].field, key) /\ NameIn(entries[k].field, key) = name}

\* the members by ascending priority, declaration order for equal priorities
ByPriority(entries, key, members) ==
    CHOOSE order \in Perms(members) :
        \A a, b \in 1..Len(order) :
            a < b =>
                \/ PriorityIn(entries[order[a]].field, key)
                       < PriorityIn(entries[order[b]].field, key)
                \/ /\ PriorityIn(entries[order[a]].field, key)
                          = PriorityIn(entries[order[b]].field, key)
                   /\ order[a] < order[b]

IndexText(create, name, tableName, columns, q) ==
    create \o name \o " ON " \o quote(tableName, q) \o " ("
        \o Join([k \in 1..Len(columns) |-> quote(columns[k], q)], ", ") \o ");"

\* the statements of indexes that create the index name
Creating(indexes, name) ==
    {k \in 1..Len(indexes) : Contains(indexes[k], "INDEX " \o name \o " ON ")}

\* C18: the fields that share the uniqueIndex name udx_pair render one
\* CREATE UNIQUE INDEX statement whose columns are these fields' columns by
\* ascending priority, in declaration order for equal priorities, a
\* non-numeric priority counting as 0.
C18_CompositeIndexByPriority ==
    Called =>
        LET entries == Direct(call.fields)
            members == Members(entries, "uniqueIndex", "udx_pair")
            order == ByPriority(entries, "uniqueIndex", members)
        IN  IF members = {} THEN Creating(call.indexes, "udx_pair") = {}
            ELSE /\ Cardinality(Creating(call.indexes, "udx_pair")) = 1
                 /\ \E k \in 1..Len(call.indexes) :
                       call.indexes[k]
                           = IndexText("CREATE UNIQUE INDEX ", "udx_pair", "users",
                                       [j \in 1..Len(order) |-> entries[order[j]].column],
                                       call.quoteChar)

\* priorities 2 and 1: the priority-1 column comes first
C18_Witness ==
    /\ Called
    /\ call.fields = <<cFirst, cSecond>>
    /\ call.quoteChar = BQ
    /\ call.indexes
           = <<"CREATE UNIQUE INDEX udx_pair ON " \o BQ \o "users" \o BQ \o " ("
                  \o BQ \o "second" \o BQ \o ", " \o BQ \o "first" \o BQ \o ");">>

\* C19: the index idx_name holds the columns of every field of the model
\* that tags it, the fields of embedded structures included; a field with an
\* index (uniqueIndex) option without a name has a single-column index
\* idx_<column> (udx_<column>) of its own.
C19_IndexAggregation ==
    Called =>
        LET entries == Flattened(call.fields, 1, "")
            members == Members(entries, "index", "idx_name")
            order == ByPriority(entries, "index", members)
        IN  /\ IF members = {} THEN Creating(call.indexes, "idx_name") = {}
               ELSE \E k \in 1..Len(call.indexes) :
                       call.indexes[k]
                           = IndexText("CREATE INDEX ", "idx_name", "users",
                                       [j \in 1..Len(order) |-> entries[order[j]].column],
                                       call.quoteChar)
            /\ \A e \in Range(entries) :
                  /\ (hasTag(e.field, "index") /\ NameIn(e.field, "index") = "") =>
                        \E k \in 1..Len(call.indexes) :
                           call.indexes[k]
                               = IndexText("CREATE INDEX ", "idx_" \o e.column, "users",
                                           <<e.column>>, call.quoteChar)
                  /\ (hasTag(e.field, "uniqueIndex")
                          /\ NameIn(e.field, "uniqueIndex") = "") =>
                        \E k \in 1..Len(call.indexes) :
                           call.indexes[k]
                               = IndexText("CREATE UNIQUE INDEX ", "udx_" \o e.column,
                                           "users", <<e.column>>, call.quoteChar)

(***************************************************************************)
(* Reversibility and quoting of the diff (specification DiffSpec)          *)
(***************************************************************************)
\* the columns of a model: column name |-> the words of its type and constraints
ColumnsOf(id) ==
    LET produced == ProducedColumns(Models[id].Fields, 1, "")
    IN  [n \in {produced[k].Name : k \in 1..Len(produced)} |->
            Words(CHOOSE c \in Range(produced) : c.Name = n)]

\* a table as the statements see it: its columns and its index statements
TableOfModel(id, q) ==
    [ok |-> TRUE, columns |-> ColumnsOf(id), indexes |-> Range(Compiled(id, q).indexes)]

ColumnHead(tableName, verb) ==
    "ALTER TABLE " \o BQ \o tableName \o BQ \o " " \o verb \o " COLUMN " \o BQ

\* the column name that follows the head, and the words after the name
NamedBy(stmt, head) ==
    SubSeq(stmt, Len(head) + 1, IndexFrom(stmt, BQ, Len(head) + 1) - 1)

DefinedBy(stmt, head) ==
    Fields(SubSeq(stmt, IndexFrom(stmt, BQ, Len(head) + 1) + 1, Len(stmt) - 1))

\* the table after one statement; ok is FALSE when the statement cannot run
Apply(table, stmt, tableName) ==
    IF HasPrefix(stmt, ColumnHead(tableName, "ADD"))
    THEN LET n == NamedBy(stmt, ColumnHead(tableName, "ADD"))
         IN  IF n \in DOMAIN table.columns THEN [table EXCEPT !.ok = FALSE]
             ELSE [table EXCEPT !.columns =
                      (n :> DefinedBy(stmt, ColumnHead(tableName, "ADD"))) @@ @]
    ELSE IF HasPrefix(stmt, ColumnHead(tableName, "MODIFY"))
    THEN LET n == NamedBy(stmt, ColumnHead(tableName, "MODIFY"))
         IN  IF n \notin DOMAIN table.columns THEN [table EXCEPT !.ok = FALSE]
             ELSE [table EXCEPT !.columns[n] =
                      DefinedBy(stmt, ColumnHead(tableName, "MODIFY"))]
    ELSE IF HasPrefix(stmt, ColumnHead(tableName, "DROP"))
    THEN LET n == NamedBy(stmt, ColumnHead(tableName, "DROP"))
         IN  IF n \notin DOMAIN table.columns THEN [table EXCEPT !.ok = FALSE]
             ELSE [table EXCEPT !.columns =
                      [c \in DOMAIN table.columns \ {n} |-> table.columns[c]]]
    ELSE IF HasPrefix(stmt, "CREATE ")
    THEN [table EXCEPT !.indexes = @ \cup {stmt}]
    ELSE IF HasPrefix(stmt, "DROP INDEX ")
    THEN [table EXCEPT !.indexes =
             {i \in @ : ~Contains(i, "INDEX " \o Fields(stmt)[3] \o " ON ")}]
    ELSE [table EXCEPT !.ok = FALSE]

RECURSIVE ApplyAll(_, _, _, _)
ApplyAll(table, stmts, k, tableName) ==
    IF k > Len(stmts) THEN table
    ELSE ApplyAll(Apply(table, stmts[k], tableName), stmts, k + 1, tableName)

\* one statement: a single line that ends with its only semicolon
OneStatement(stmt) ==
    ~Contains(stmt, NL) /\ CountChar(stmt, ";") = 1 /\ HasSuffix(stmt, ";")

\* C14: without KeepDroppedColumn, the up and down lists hold one statement
\* per operation, the up statements turn the columns and indexes of the
\* snapshot's model into those of the new model, and the down statements turn
\* these back into the snapshot's.
C14_Reversible ==
    (Called /\ call.quoteChar \in Backticks /\ ~call.keep) =>
        /\ Len(call.up) = Len(call.down)
        /\ \A stmt \in Range(call.up) \cup Range(call.down) : OneStatement(stmt)
        /\ ApplyAll(TableOfModel(call.old, call.quoteChar), call.up, 1, call.tableName)
               = TableOfModel(call.new, call.quoteChar)
        /\ ApplyAll(TableOfModel(call.new, call.quoteChar), call.down, 1, call.tableName)
               = TableOfModel(call.old, call.quoteChar)

\* C20: whatever the quote character, the diff of two versions of a table
\* is made of statements (no parse error takes their place), and with a quote
\* character other than the backtick no statement holds a backtick.
C20_UniformQuoting ==
    Called =>
        \A stmt \in Range(call.up) \cup Range(call.down) :
            /\ ~HasPrefix(stmt, "--")
            /\ call.quoteChar \notin Backticks => ~Contains(stmt, BQ)

(***************************************************************************)
(* Properties of the hash (specification HashSpec)                         *)
(***************************************************************************)
\* s with tabs and newlines read as spaces and every run of spaces cut to one
RECURSIVE Squeezed(_, _)
Squeezed(s, k) ==
    IF k > Len(s) THEN ""
    ELSE IF IsSpace(Ch(s, k))
    THEN IF k > 1 /\ IsSpace(Ch(s, k - 1)) THEN Squeezed(s, k + 1)
         ELSE " " \o Squeezed(s, k + 1)
    ELSE Ch(s, k) \o Squeezed(s, k + 1)

\* C21: the hash is a function of the whitespace-normalised schema text and
\* the whitespace-normalised index texts: it is the digest of these texts, so
\* inputs equal after normalisation have one hash and the hash changes only
\* when a normalised text does.
C21_HashOfNormalisedTexts ==
    Called =>
        call.hash = Md5Hex(Squeezed(call.schema, 1)
                               \o (IF call.indexes = <<>> THEN ""
                                   ELSE Squeezed(call.indexes[1], 1)))

\* texts with runs of whitespace hash as their normalised form does
C21_Witness ==
    /\ Called
    /\ call.schema = "a" \o TAB \o NL
    /\ call.indexes = <<"   ">>
    /\ call.hash = Md5Hex("a  ")

(***************************************************************************)
(* Properties of the column comparison (specification ColumnsSpec)         *)
(***************************************************************************)
ModifyText(col) ==
    "ALTER TABLE " \o BQ \o "users" \o BQ \o " MODIFY COLUMN " \o BQ \o col.Name \o BQ
        \o " " \o col.Type \o " " \o Join(col.Constraints, " ") \o ";"

\* C22: a column of both schemas yields a MODIFY COLUMN operation exactly
\* when its type differs or its constraint lists differ as sequences; it is
\* one pair, the new definition up and the old definition down; a column
\* with equal type and constraint sequence yields nothing.
C22_ModifyWhenDefinitionDiffers ==
    Called =>
        IF call.oldCol.Type = call.newCol.Type
               /\ call.oldCol.Constraints = call.newCol.Constraints
        THEN call.ops = <<>>
        ELSE call.ops = <<[Up |-> ModifyText(call.newCol),
                           Down |-> ModifyText(call.oldCol)]>>

\* the same constraints in another order: one MODIFY COLUMN pair
C22_Witness ==
    /\ Called
    /\ call.oldCol.Type = call.newCol.Type
    /\ call.oldCol.Constraints = <<"NOT", "NULL">>
    /\ call.newCol.Constraints = <<"NULL", "NOT">>
    /\ Len(call.ops) = 1
    /\ call.ops[1].Up = ModifyText(call.newCol)
    /\ call.ops[1].Down = ModifyText(call.oldCol)

(***************************************************************************)
(* Properties of the index diff (specification IndexSetSpec)               *)
(***************************************************************************)
DropText(name) == "DROP INDEX " \o name \o " ON " \o BQ \o "users" \o BQ \o ";"

\* the columns between the parentheses of an index text, as a set, and
\* whether the text creates a unique index
ColumnSetOf(text) ==
    Range(Split(SubSeq(text, Index(text, "(") + 1, Index(text, ")") - 1), ", "))

UniqueIn(text) == HasPrefix(text, "CREATE UNIQUE INDEX ")

\* the operations expected for one index name, given its old and new text
ExpectedFor(name, oldText, newText) ==
    IF oldText = "" /\ newText = "" THEN {}
    ELSE IF oldText = "" THEN {[Up |-> newText, Down |-> DropText(name)]}
    ELSE IF newText = "" THEN {[Up |-> DropText(name), Down |-> oldText]}
    ELSE IF UniqueIn(oldText) = UniqueIn(newText)
               /\ ColumnSetOf(oldText) = ColumnSetOf(newText) THEN {}
    ELSE {[Up |-> DropText(name) \o NL \o newText,
           Down |-> DropText(name) \o NL \o oldText]}

\* C23: the index diff holds one pair per index that changed: CREATE up and
\* DROP INDEX down for an index only in the new list, DROP INDEX up and CREATE
\* of the old definition down for an index only in the old list, DROP INDEX
\* then CREATE of the new definition up and DROP INDEX then CREATE of the old
\* definition down for an index of both that differs.
C23_IndexPairs ==
    Called =>
        LET expected == ExpectedFor("idx_pair", call.oldPair, call.newPair)
                            \cup ExpectedFor("idx_age", call.oldAge, call.newAge)
        IN  /\ Range(call.ops) = expected
            /\ Len(call.ops) = Cardinality(expected)

\* one index changed, one removed: two pairs
C23_Witness ==
    /\ Called
    /\ call.oldPair # "" /\ call.newPair # ""
    /\ UniqueIn(call.oldPair) # UniqueIn(call.newPair)
    /\ call.oldAge # "" /\ call.newAge = ""
    /\ Len(call.ops) = 2
    /\ [Up |-> DropText("idx_age"), Down |-> call.oldAge] \in Range(call.ops)
    /\ [Up |-> DropText("idx_pair") \o NL \o call.newPair,
        Down |-> DropText("idx_pair") \o NL \o call.oldPair] \in Range(call.ops)

(***************************************************************************)
(* Properties of Generate when a CREATE TABLE text cannot be parsed        *)
(***************************************************************************)
\* the round diffed two texts of which one does not parse
DiffUnparsed(entry) ==
    /\ entry.old # NoSnapshot
    /\ entry.old.Hash # entry.hash
    /\ (Parsed(entry.schema).err \/ Parsed(entry.old.Schema).err)

\* C24: when Generate has returned after a round whose stored or newly
\* compiled CREATE TABLE text could not be parsed, it returned an error (the
\* failure is reported), and while the loop runs such a round does not stop it:
\* every model before the loop position has its round.
C24_ParseFailureReported ==
    /\ (pc \in {"done", "failed"} /\ \E k \in 1..Len(log) : DiffUnparsed(log[k]))
           => err # ""
    /\ (pc = "loop" /\ \E k \in 1..Len(log) : DiffUnparsed(log[k]))
           => Len(log) = idx - 1

\* C25: when the model Generate has just processed met a snapshot with another
\* hash and one of the two CREATE TABLE texts does not parse, the round
\* appended no migration and the snapshot of the table is the one the round
\* met.
C25_ParseFailureLeavesBaseline ==
    (log # <<>> /\ DiffUnparsed(LastEntry)) =>
        /\ LastInfos = {}
        /\ snapshots[findSnapshot(snapshots, LastEntry.table)] = LastEntry.old

(***************************************************************************)
(* Successive versions of one model: a migrator that holds one model runs  *)
(* Generate once per version, and the up statements of the files it emits  *)
(* are applied, in emission order, to a database that starts empty.        *)
(***************************************************************************)
MaxRuns == 3        \* most runs of one behaviour

\* a database without the table
NoTable == [ok |-> TRUE, columns |-> <<>>, indexes |-> {}]

\* the statements of a file that are not SQL comments
Executable(stmts) == SelectSeq(stmts, LAMBDA s : ~HasPrefix(s, "--"))

\* the state after a run: the snapshots, the database before and after the
\* run's file, the version the snapshot recorded before and records after the
\* run, the up statements Generate tested for emptiness and those of the file
\* it emitted
Ran(prev, id, q, keep, snaps, db, recorded, kind, checked, ups) ==
    [runs |-> IF prev = NoCall THEN 1 ELSE prev.runs + 1,
     version |-> id, tableName |-> TableOf(id), quoteChar |-> q, keep |-> keep,
     snapshots |-> snaps,
     prior |-> IF prev = NoCall THEN NoTable ELSE prev.database,
     met |-> IF prev = NoCall THEN "" ELSE prev.recorded,
     database |-> db, recorded |-> recorded, kind |-> kind,
     checked |-> checked, up |-> ups]

ReplayInit == Fresh(DefaultConfig, {})

\* Generate of a migrator whose only model is the version id (every file
\* write succeeds)
GenerateVersion ==
    /\ \E id \in ModelIds, q \in QuoteChars, keep \in BOOLEAN :
          /\ ~ParseModelFails(Models[id])
          /\ Called => /\ call.runs < MaxRuns
                       /\ q = call.quoteChar
                       /\ keep = call.keep
                       /\ TableOf(id) = call.tableName
          /\ \E snaps \in {IF Called THEN call.snapshots ELSE <<>>},
                db \in {IF Called THEN call.database ELSE NoTable},
                compiled \in {Compiled(id, q)},
                config \in {[DefaultConfig EXCEPT !.QuoteChar = q,
                                                  !.KeepDroppedColumn = keep]} :
                \E at \in {findSnapshot(snaps, TableOf(id))} :
                   IF at = 0
                   THEN call' = Ran(call, id, q, keep,
                                    Append(snaps, newSnapshot(TableOf(id), HashOf(id, q),
                                               compiled.schema, compiled.indexes)),
                                    TableOfModel(id, q), id, "create", <<>>,
                                    <<compiled.schema>> \o compiled.indexes)
                   ELSE IF snaps[at].Hash = HashOf(id, q)
                   THEN call' = Ran(call, id, q, keep, snaps, db, call.recorded,
                                    "none", <<>>, <<>>)
                   ELSE \E checked, alter \in AlterResults(config, snaps, TableOf(id),
                                                 compiled.schema, compiled.indexes) :
                           IF Len(checked.up) > 0
                           THEN call' = Ran(call, id, q, keep,
                                    [snaps EXCEPT ![at] =
                                        updatedSnapshot(@, HashOf(id, q), compiled.schema,
                                                        compiled.indexes)],
                                    ApplyAll(db, Executable(alter.up), 1, TableOf(id)),
                                    id, "alter", checked.up, alter.up)
                           ELSE call' = Ran(call, id, q, keep, snaps, db,
                                            call.recorded, "none", checked.up, <<>>)
    /\ UNCHANGED <<runVars, lib>>

ReplayNext == GenerateVersion

ReplaySpec == ReplayInit /\ [][ReplayNext]_vars

(***************************************************************************)
(* Properties of successive runs (specification ReplaySpec)                *)
(***************************************************************************)
\* C26: without KeepDroppedColumn, after every run the database obtained by
\* applying the up statements of all emitted files, in emission order, to an
\* empty schema has exactly the columns (name, type, constraints) and the
\* indexes of the version the table's snapshot records.
C26_ReplayYieldsSnapshot ==
    (Called /\ ~call.keep) =>
        call.database = TableOfModel(call.recorded, call.quoteChar)

\* the columns the statements of a file add
AddedBy(stmts, tableName) ==
    {NamedBy(stmts[k], ColumnHead(tableName, "ADD")) :
        k \in {n \in 1..Len(stmts) : HasPrefix(stmts[n], ColumnHead(tableName, "ADD"))}}

\* C27: with KeepDroppedColumn, no file adds a column that the files emitted
\* before it have created and not dropped.
C27_KeptColumnNotAddedAgain ==
    (Called /\ call.keep /\ call.kind = "alter") =>
        AddedBy(call.up, call.tableName) \cap DOMAIN call.prior.columns = {}

\* the versions a and b differ in the field marked primary key only: the
\* columns are the same, in the same order
PrimaryKeyOnly(a, b) ==
    /\ a \in ModelIds /\ b \in ModelIds
    /\ TableOf(a) = TableOf(b)
    /\ HasPrimaryKey(a) /\ HasPrimaryKey(b)
    /\ FirstPrimaryKey(Models[a].Fields, 1) # FirstPrimaryKey(Models[b].Fields, 1)
    /\ ProducedColumns(Models[a].Fields, 1, "") = ProducedColumns(Models[b].Fields, 1, "")

\* C29: a run whose version differs from the one the snapshot records in the
\* primary key only computes another hash, emits nothing and leaves the
\* snapshot, with the old PRIMARY KEY clause, as it was.
C29_PrimaryKeyChangeIsCosmetic ==
    (Called /\ PrimaryKeyOnly(call.met, call.version)) =>
        /\ HashOf(call.version, call.quoteChar) # HashOf(call.met, call.quoteChar)
        /\ call.kind = "none"
        /\ call.up = <<>>
        /\ call.recorded = call.met
        /\ call.snapshots = <<SnapshotOf(call.met, call.quoteChar)>>
        /\ Contains(call.snapshots[1].Schema,
                    "PRIMARY KEY (" \o quote(FirstPrimaryKey(Models[call.met].Fields, 1),
                                             call.quoteChar) \o ")")

\* C30: the up statements generateAlterStatements returned to Generate, which
\* tests them for emptiness, and those it returned to
\* generateMigrationFileInfo, which writes them, are the same sequence.
C30_DiffDeterministic ==
    (Called /\ call.kind = "alter") => call.checked = call.up

(***************************************************************************)
(* Indexes and columns of a compiled model (specification CompileSpec)     *)
(***************************************************************************)
\* the quoted column names the CREATE TABLE text defines: the first word of
\* each of its column lines
DefinedColumns(schema) ==
    LET lines == Split(schema, NL)
    IN  {Fields(lines[k])[1] :
            k \in {n \in 2..Len(lines) - 1 :
                      /\ TrimSpace(lines[n]) # ""
                      /\ ~HasPrefix(TrimSpace(lines[n]), "PRIMARY KEY")}}

\* C28: every column named in a CREATE INDEX statement compiled from a model
\* is a column of the CREATE TABLE statement compiled from it.
C28_IndexedColumnsExist ==
    Called =>
        \A k \in 1..Len(call.indexes) :
            ColumnSetOf(call.indexes[k]) \subseteq DefinedColumns(call.schema)

====
